---- MODULE Spec2Model ----
(***************************************************************************)
(* Model of the personal assistant's in-memory data model                  *)
(* (src/assistant/models.py) and of the GUI backend built on it            *)
(* (src/assistant/gui_backend.py).                                         *)
(*                                                                         *)
(* A Python str is a sequence of characters; a character is a one-element  *)
(* string, except for the few non-ASCII characters, which are named.       *)
(***************************************************************************)
EXTENDS Integers, Sequences, FiniteSets, TLC

\* ------------------------------------------------------------------------
\* Characters and the str methods the models use
\* ------------------------------------------------------------------------

\* U+00DF LATIN SMALL LETTER SHARP S: lower() keeps it, casefold() gives "ss"
SharpS == "U+00DF"

\* U+0663 ARABIC-INDIC DIGIT THREE: isdigit() is true, it is not in [0-9]
ArabicThree == "U+0663"

AsciiDigits == {"0", "1", "2", "3", "4", "5", "6", "7", "8", "9"}

AsciiLower == {"a", "b", "c", "d", "e", "f", "g", "h", "i", "j", "k", "l", "m",
               "n", "o", "p", "q", "r", "s", "t", "u", "v", "w", "x", "y", "z"}

AsciiUpper == {"A", "B", "C", "D", "E", "F", "G", "H", "I", "J", "K", "L", "M",
               "N", "O", "P", "Q", "R", "S", "T", "U", "V", "W", "X", "Y", "Z"}

\* the characters str.strip() removes and str.split() splits on
Whitespace == {" ", "\t", "\n"}

UpperToLower ==
    [c \in AsciiUpper |->
        CASE c = "A" -> "a" [] c = "B" -> "b" [] c = "C" -> "c" [] c = "D" -> "d"
          [] c = "E" -> "e" [] c = "F" -> "f" [] c = "G" -> "g" [] c = "H" -> "h"
          [] c = "I" -> "i" [] c = "J" -> "j" [] c = "K" -> "k" [] c = "L" -> "l"
          [] c = "M" -> "m" [] c = "N" -> "n" [] c = "O" -> "o" [] c = "P" -> "p"
          [] c = "Q" -> "q" [] c = "R" -> "r" [] c = "S" -> "s" [] c = "T" -> "t"
          [] c = "U" -> "u" [] c = "V" -> "v" [] c = "W" -> "w" [] c = "X" -> "x"
          [] c = "Y" -> "y" [] c = "Z" -> "z"]

\* str.lower() on one character (always one character for this alphabet)
LowerChar(c) == IF c \in AsciiUpper THEN UpperToLower[c] ELSE c

\* str.casefold() on one character: a string, since sharp s folds to "ss"
CasefoldChar(c) == IF c = SharpS THEN <<"s", "s">> ELSE <<LowerChar(c)>>

\* str.lower()
Lower(s) == [i \in 1..Len(s) |-> LowerChar(s[i])]

RECURSIVE Casefold(_)
\* str.casefold()
Casefold(s) == IF s = <<>> THEN <<>> ELSE CasefoldChar(Head(s)) \o Casefold(Tail(s))

RECURSIVE LStrip(_, _)
\* str.lstrip(chars): drop the leading characters that are in chars
LStrip(s, chars) ==
    IF s # <<>> /\ Head(s) \in chars THEN LStrip(Tail(s), chars) ELSE s

RECURSIVE RStrip(_, _)
\* str.rstrip(chars)
RStrip(s, chars) ==
    IF s # <<>> /\ s[Len(s)] \in chars THEN RStrip(SubSeq(s, 1, Len(s) - 1), chars) ELSE s

\* str.strip(): drop leading and trailing whitespace
Strip(s) == RStrip(LStrip(s, Whitespace), Whitespace)

\* the characters with the Unicode digit property (str.isdigit, regex \d)
UnicodeDigits == AsciiDigits \cup {ArabicThree}

\* str.isdigit(): non-empty and every character is a (Unicode) digit
IsDigit(s) == s # <<>> /\ \A i \in 1..Len(s) : s[i] \in UnicodeDigits

\* the `in` operator on two strings: q is a substring of s
Contains(q, s) ==
    \E i \in 0..(Len(s) - Len(q)) : \A j \in 1..Len(q) : s[i + j] = q[j]

\* ------------------------------------------------------------------------
\* Outcome of a call: the exception it raises ("" when it returns) and the
\* value it returns
\* ------------------------------------------------------------------------

Ok(v) == [err |-> "", val |-> v]

Raise(e) == [err |-> e, val |-> <<>>]

\* a method of a mutable object raises e, leaving the object in state v
RaiseAfter(e, v) == [err |-> e, val |-> v]

\* Python's None
None == [none |-> TRUE]

\* ------------------------------------------------------------------------
\* Field classes: _validate of each subclass
\* ------------------------------------------------------------------------

\* Name._validate: more than 2 characters after strip(); stores the stripped text
Name_validate(value) ==
    IF Len(Strip(value)) <= 2
    THEN Raise("InvalidNameFormatError")
    ELSE Ok(Strip(value))

\* Phone._validate: value.isdigit() and len(value) == 10
Phone_validate(value) ==
    IF ~(IsDigit(value) /\ Len(value) = 10)
    THEN Raise("InvalidPhoneFormatError")
    ELSE Ok(value)

EmailLocalChars == AsciiUpper \cup AsciiLower \cup AsciiDigits \cup {".", "_", "%", "+", "-"}

EmailDomainChars == AsciiUpper \cup AsciiLower \cup AsciiDigits \cup {".", "-"}

\* re.match(r"^[A-Za-z0-9._%+-]+@[A-Za-z0-9.-]+\.[A-Za-z]{2,}$", s):
\* `$` matches at the end and also just before one trailing newline
EmailMatch(s) ==
    \E n \in {Len(s)} \cup (IF s # <<>> /\ s[Len(s)] = "\n" THEN {Len(s) - 1} ELSE {}) :
      \E at \in 2..n : \E dot \in (at + 2)..(n - 2) :
        /\ s[at] = "@"
        /\ s[dot] = "."
        /\ \A i \in 1..(at - 1) : s[i] \in EmailLocalChars
        /\ \A i \in (at + 1)..(dot - 1) : s[i] \in EmailDomainChars
        /\ \A i \in (dot + 1)..n : s[i] \in AsciiUpper \cup AsciiLower

\* Email._validate
Email_validate(value) ==
    IF ~EmailMatch(value) THEN Raise("InvalidEmailFormatError") ELSE Ok(value)

\* Address inherits Field._validate: no validation
Address_validate(value) == Ok(value)

\* --- dates --------------------------------------------------------------

\* a datetime.date
Date(y, m, d) == [y |-> y, m |-> m, d |-> d]

IsLeap(y) == (y % 4 = 0) /\ ((y % 100 # 0) \/ (y % 400 = 0))

DaysInMonth(y, m) ==
    IF m = 2 THEN (IF IsLeap(y) THEN 29 ELSE 28)
    ELSE IF m \in {4, 6, 9, 11} THEN 30 ELSE 31

\* date.__lt__
DateLess(a, b) ==
    \/ a.y < b.y
    \/ a.y = b.y /\ a.m < b.m
    \/ a.y = b.y /\ a.m = b.m /\ a.d < b.d

\* int() of one digit character; the regex class \d matches Unicode digits
DigitVal(c) ==
    CASE c = "0" -> 0 [] c = "1" -> 1 [] c = "2" -> 2 [] c = "3" -> 3 [] c = "4" -> 4
      [] c = "5" -> 5 [] c = "6" -> 6 [] c = "7" -> 7 [] c = "8" -> 8 [] c = "9" -> 9
      [] c = ArabicThree -> 3

RECURSIVE IntOf(_)
\* int() of a string of digits (leading blanks, as in " 7", are skipped)
IntOf(s) ==
    IF s = <<>> THEN 0
    ELSE IF s[Len(s)] = " " THEN 0
    ELSE 10 * IntOf(SubSeq(s, 1, Len(s) - 1)) + DigitVal(s[Len(s)])

\* the %d directive: 3[0-1]|[1-2]\d|0[1-9]|[1-9]| [1-9]
StrpDay(s) ==
    \/ Len(s) = 2 /\ s[1] = "3" /\ s[2] \in {"0", "1"}
    \/ Len(s) = 2 /\ s[1] \in {"1", "2"} /\ s[2] \in UnicodeDigits
    \/ Len(s) = 2 /\ s[1] = "0" /\ s[2] \in AsciiDigits \ {"0"}
    \/ Len(s) = 1 /\ s[1] \in AsciiDigits \ {"0"}
    \/ Len(s) = 2 /\ s[1] = " " /\ s[2] \in AsciiDigits \ {"0"}

\* the %m directive: 1[0-2]|0[1-9]|[1-9]
StrpMonth(s) ==
    \/ Len(s) = 2 /\ s[1] = "1" /\ s[2] \in {"0", "1", "2"}
    \/ Len(s) = 2 /\ s[1] = "0" /\ s[2] \in AsciiDigits \ {"0"}
    \/ Len(s) = 1 /\ s[1] \in AsciiDigits \ {"0"}

\* the %Y directive: \d\d\d\d
StrpYear(s) == Len(s) = 4 /\ \A i \in 1..4 : s[i] \in UnicodeDigits

\* datetime.strptime(s, "%d.%m.%Y").date(): ValueError when the text does not
\* match the format or names no calendar date. No directive matches a ".",
\* so a matching text has exactly two of them.
Strptime(s) ==
    LET dots == {i \in 1..Len(s) : s[i] = "."}
    IN  IF Cardinality(dots) # 2 THEN Raise("ValueError")
        ELSE LET i == CHOOSE i \in dots : \A k \in dots : i <= k
                 j == CHOOSE j \in dots : \A k \in dots : k <= j
                 dd == SubSeq(s, 1, i - 1)
                 mm == SubSeq(s, i + 1, j - 1)
                 yy == SubSeq(s, j + 1, Len(s))
             IN  IF ~(StrpDay(dd) /\ StrpMonth(mm) /\ StrpYear(yy))
                 THEN Raise("ValueError")
                 ELSE IF IntOf(yy) >= 1 /\ IntOf(dd) <= DaysInMonth(IntOf(yy), IntOf(mm))
                 THEN Ok(Date(IntOf(yy), IntOf(mm), IntOf(dd)))
                 ELSE Raise("ValueError")

\* _validate without the test against date.today()
Birthday_validate_any_date(value, now) ==
    IF value = <<>>
    THEN Ok(None)
    ELSE LET parsed == Strptime(Strip(value))
         IN  IF parsed.err # "" THEN Raise("InvalidBirthdayFormatError")
             ELSE Ok(parsed.val)

\* Birthday._validate(value) for a str value when date.today() is now:
\* "" gives None, a date after now is refused
Birthday_validate(value, now) ==
    IF value = <<>>
    THEN Ok(None)
    ELSE LET parsed == Strptime(Strip(value))
         IN  IF parsed.err # "" THEN Raise("InvalidBirthdayFormatError")
             ELSE IF DateLess(now, parsed.val) THEN Raise("InvalidBirthdayFormatError")
             ELSE Ok(parsed.val)

\* ------------------------------------------------------------------------
\* Record: [name, phones, birthday, email, address]. A field object is
\* [value |-> v]; phones is the list of the Phone objects' values.
\* ------------------------------------------------------------------------

Field(v) == [value |-> v]

\* Record.__init__
Record_init(name) ==
    LET n == Name_validate(name)
    IN  IF n.err # "" THEN n
        ELSE Ok([name |-> Field(n.val), phones |-> <<>>, birthday |-> None,
                 email |-> None, address |-> None])

\* Record.find_phone: position of the first phone whose value is the number,
\* 0 for None
find_phone(rec, phone_number) ==
    IF \E i \in 1..Len(rec.phones) : rec.phones[i] = phone_number
    THEN CHOOSE i \in 1..Len(rec.phones) :
            /\ rec.phones[i] = phone_number
            /\ \A k \in 1..(i - 1) : rec.phones[k] # phone_number
    ELSE 0

\* add_phone without the find_phone test
add_phone_append(rec, phone_number) ==
    LET p == Phone_validate(phone_number)
    IN  IF p.err # "" THEN RaiseAfter(p.err, rec)
        ELSE Ok([rec EXCEPT !.phones = Append(@, p.val)])

\* Record.add_phone
add_phone(rec, phone_number) ==
    IF find_phone(rec, phone_number) = 0
    THEN LET p == Phone_validate(phone_number)
         IN  IF p.err # "" THEN RaiseAfter(p.err, rec)
             ELSE Ok([rec EXCEPT !.phones = Append(@, p.val)])
    ELSE Ok(rec)

\* edit_phone building Phone(new_phone) before it looks for the old one
edit_phone_new_first(rec, old_phone, new_phone) ==
    LET i == find_phone(rec, old_phone)
        p == Phone_validate(new_phone)
    IN  IF p.err # "" THEN RaiseAfter(p.err, rec)
        ELSE IF i # 0 THEN Ok([rec EXCEPT !.phones[i] = p.val])
        ELSE RaiseAfter("PhoneNotFoundError", rec)

\* Record.edit_phone: the found Phone object gets the new value through the
\* validating setter
edit_phone(rec, old_phone, new_phone) ==
    LET i == find_phone(rec, old_phone)
    IN  IF i # 0
        THEN LET p == Phone_validate(new_phone)
             IN  IF p.err # "" THEN RaiseAfter(p.err, rec)
                 ELSE Ok([rec EXCEPT !.phones[i] = p.val])
        ELSE RaiseAfter("PhoneNotFoundError", rec)

\* Record.delete_phone: list.remove of the found Phone object
delete_phone(rec, phone_number) ==
    LET i == find_phone(rec, phone_number)
    IN  IF i # 0
        THEN Ok([rec EXCEPT !.phones =
                    SubSeq(@, 1, i - 1) \o SubSeq(@, i + 1, Len(@))])
        ELSE RaiseAfter("PhoneNotFoundError", rec)

\* add_email storing the text before it is validated
add_email_store_first(rec, email_str) ==
    LET e == Email_validate(email_str)
    IN  IF e.err # "" THEN RaiseAfter(e.err, [rec EXCEPT !.email = Field(email_str)])
        ELSE Ok([rec EXCEPT !.email = Field(e.val)])

\* Record.add_email
add_email(rec, email_str) ==
    LET e == Email_validate(email_str)
    IN  IF e.err # "" THEN RaiseAfter(e.err, rec) ELSE Ok([rec EXCEPT !.email = Field(e.val)])

\* Record.add_address
add_address(rec, address_str) ==
    Ok([rec EXCEPT !.address = Field(Address_validate(address_str).val)])

\* Record.add_birthday
add_birthday(rec, date_str, now) ==
    LET b == Birthday_validate(date_str, now)
    IN  IF b.err # "" THEN RaiseAfter(b.err, rec) ELSE Ok([rec EXCEPT !.birthday = Field(b.val)])

\* ------------------------------------------------------------------------
\* dict (UserDict.data): the entries [key, val] in insertion order
\* ------------------------------------------------------------------------

DictHas(d, k) == \E i \in 1..Len(d) : d[i].key = k

DictIndex(d, k) == CHOOSE i \in 1..Len(d) : d[i].key = k

\* d.get(k): None when the key is absent
DictGet(d, k) == IF DictHas(d, k) THEN d[DictIndex(d, k)].val ELSE None

\* d[k] = v: a present key keeps its position, a new key goes last
DictSet(d, k, v) ==
    IF DictHas(d, k)
    THEN [d EXCEPT ![DictIndex(d, k)].val = v]
    ELSE Append(d, [key |-> k, val |-> v])

\* del d[k]
DictDel(d, k) ==
    LET i == DictIndex(d, k)
    IN  SubSeq(d, 1, i - 1) \o SubSeq(d, i + 1, Len(d))

\* list(d.values())
DictValues(d) == [i \in 1..Len(d) |-> d[i].val]

\* ------------------------------------------------------------------------
\* AddressBook
\* ------------------------------------------------------------------------

\* _key with lower() in place of casefold()
AddressBook_key_lower(name) == Lower(Strip(name))

\* AddressBook._key
AddressBook_key(name) == Casefold(Strip(name))

\* add_record as dict.setdefault: a stored record is kept
add_record_keep(data, record) ==
    IF DictHas(data, AddressBook_key(record.name.value))
    THEN data
    ELSE DictSet(data, AddressBook_key(record.name.value), record)

\* AddressBook.add_record: the new mapping
add_record(data, record) ==
    DictSet(data, AddressBook_key(record.name.value), record)

\* AddressBook.find
find(data, name) == DictGet(data, AddressBook_key(name))

\* delete as dict.pop(key, None): an absent name is ignored
delete_silent(data, name) ==
    IF DictHas(data, AddressBook_key(name))
    THEN Ok(DictDel(data, AddressBook_key(name)))
    ELSE Ok(data)

\* AddressBook.delete
delete(data, name) ==
    IF DictHas(data, AddressBook_key(name))
    THEN Ok(DictDel(data, AddressBook_key(name)))
    ELSE RaiseAfter("ContactNotFoundError", data)

\* the fields search_contacts looks into, for one record
fields_to_check(record) ==
    <<Lower(record.name.value)>>
      \o [i \in 1..Len(record.phones) |-> Lower(record.phones[i])]
      \o (IF record.email # None /\ record.email.value # <<>>
          THEN <<Lower(record.email.value)>> ELSE <<>>)
      \o (IF record.address # None /\ record.address.value # <<>>
          THEN <<Lower(record.address.value)>> ELSE <<>>)

RECURSIVE SelectRecords(_, _)
\* the records of a list that have a field containing the query, in order
SelectRecords(records, query_lower) ==
    IF records = <<>> THEN <<>>
    ELSE LET fields == fields_to_check(Head(records))
             rest == SelectRecords(Tail(records), query_lower)
         IN  IF \E i \in 1..Len(fields) : Contains(query_lower, fields[i])
             THEN <<Head(records)>> \o rest
             ELSE rest

\* search_contacts without query.lower()
search_contacts_exact(data, query) == SelectRecords(DictValues(data), query)

\* AddressBook.search_contacts
search_contacts(data, query) == SelectRecords(DictValues(data), Lower(query))

\* ------------------------------------------------------------------------
\* Note: [title, content, tags], tags a set of strings
\* ------------------------------------------------------------------------

\* the cleaning without lower()
cleaned_tag_keep_case(tag) == LStrip(Strip(tag), {"#"})

\* tag.strip().lower().lstrip('#')
cleaned_tag(tag) == LStrip(Lower(Strip(tag)), {"#"})

\* Note.add_tag
Note_add_tag(note, tag) ==
    IF cleaned_tag(tag) = <<>> \/ Contains(<<" ">>, cleaned_tag(tag))
    THEN RaiseAfter("InvalidTagFormatError", note)
    ELSE Ok([note EXCEPT !.tags = @ \cup {cleaned_tag(tag)}])

\* remove_tag that discards the tag as it is given
Note_remove_tag_raw(note, tag) == [note EXCEPT !.tags = @ \ {tag}]

\* Note.remove_tag
Note_remove_tag(note, tag) == [note EXCEPT !.tags = @ \ {cleaned_tag(tag)}]

RECURSIVE add_tags_in_order(_, _)
\* `for tag in tags: note.add_tag(tag)`: stops at the first tag that raises,
\* with the tags before it already added
add_tags_in_order(note, tags) ==
    IF tags = <<>> THEN Ok(note)
    ELSE LET r == Note_add_tag(note, Head(tags))
         IN  IF r.err # "" THEN r
             ELSE add_tags_in_order(r.val, Tail(tags))

\* Note.__init__: a note whose construction raises does not exist
Note_init(title, content, tags) ==
    IF title = <<>> THEN Raise("ValueError")
    ELSE LET r == add_tags_in_order([title |-> title, content |-> content, tags |-> {}], tags)
         IN  IF r.err # "" THEN Raise(r.err) ELSE r

\* ------------------------------------------------------------------------
\* NoteBook
\* ------------------------------------------------------------------------

\* _key without strip()
NoteBook_key_nostrip(title) == Casefold(title)

\* NoteBook._key
NoteBook_key(title) == Casefold(Strip(title))

\* add_note that leaves a note already stored under the key alone
add_note_keep(data, note) ==
    IF DictHas(data, NoteBook_key(note.title)) THEN data
    ELSE DictSet(data, NoteBook_key(note.title), note)

\* NoteBook.add_note: the new mapping
add_note(data, note) == DictSet(data, NoteBook_key(note.title), note)

\* NoteBook.find_note_by_id
find_note_by_id(data, title) == DictGet(data, NoteBook_key(title))

\* NoteBook.edit_note_text
edit_note_text(data, title, new_text) ==
    IF find_note_by_id(data, title) # None
    THEN Ok(DictSet(data, NoteBook_key(title),
                    [find_note_by_id(data, title) EXCEPT !.content = new_text]))
    ELSE RaiseAfter("NoteNotFoundError", data)

\* NoteBook.delete_note
delete_note(data, title) ==
    IF DictHas(data, NoteBook_key(title))
    THEN Ok(DictDel(data, NoteBook_key(title)))
    ELSE RaiseAfter("NoteNotFoundError", data)

\* NoteBook.add_tag_to_note
add_tag_to_note(data, title, tags) ==
    IF find_note_by_id(data, title) = None
    THEN RaiseAfter("NoteNotFoundError", data)
    ELSE LET r == add_tags_in_order(find_note_by_id(data, title), tags)
         IN  [err |-> r.err, val |-> DictSet(data, NoteBook_key(title), r.val)]

\* NoteBook.remove_tag_from_note
remove_tag_from_note(data, title, tag) ==
    IF find_note_by_id(data, title) = None
    THEN RaiseAfter("NoteNotFoundError", data)
    ELSE Ok(DictSet(data, NoteBook_key(title),
                    Note_remove_tag(find_note_by_id(data, title), tag)))

\* ------------------------------------------------------------------------
\* GUI backend (gui_backend.py)
\* ------------------------------------------------------------------------

RECURSIVE Split(_, _)
\* str.split(sep) for a one-character separator
Split(s, sep) ==
    IF \E i \in 1..Len(s) : s[i] = sep
    THEN LET i == CHOOSE i \in 1..Len(s) : s[i] = sep /\ \A k \in 1..(i - 1) : s[k] # sep
         IN  <<SubSeq(s, 1, i - 1)>> \o Split(SubSeq(s, i + 1, Len(s)), sep)
    ELSE <<s>>

RECURSIVE StripNonBlank(_)
\* [p.strip() for p in pieces if p.strip()]
StripNonBlank(pieces) ==
    IF pieces = <<>> THEN <<>>
    ELSE (IF Strip(Head(pieces)) # <<>> THEN <<Strip(Head(pieces))>> ELSE <<>>)
            \o StripNonBlank(Tail(pieces))

RECURSIVE add_phones_in_order(_, _)
\* `for p_num in phone_numbers: record.add_phone(p_num)`
add_phones_in_order(rec, phone_numbers) ==
    IF phone_numbers = <<>> THEN Ok(rec)
    ELSE LET r == add_phone(rec, Head(phone_numbers))
         IN  IF r.err # "" THEN r
             ELSE add_phones_in_order(r.val, Tail(phone_numbers))

\* add_contact_gui after its existence test: the record is built, filled
\* and added
add_contact_gui_build(data, name, phones_str, email, address, birthday, now) ==
    LET r0 == Record_init(name)
        phone_numbers == StripNonBlank(Split(phones_str, ","))
    IN  IF r0.err # "" THEN RaiseAfter(r0.err, data)
        ELSE IF phone_numbers = <<>> THEN RaiseAfter("DataValidationError", data)
        ELSE
        LET r1 == add_phones_in_order(r0.val, phone_numbers)
            r2 == IF email # <<>> THEN add_email(r1.val, email) ELSE r1
            r3 == IF address # <<>> THEN add_address(r2.val, address) ELSE r2
            r4 == IF birthday # <<>> THEN add_birthday(r3.val, birthday, now) ELSE r3
        IN  IF r1.err # "" THEN RaiseAfter(r1.err, data)
            ELSE IF r2.err # "" THEN RaiseAfter(r2.err, data)
            ELSE IF r4.err # "" THEN RaiseAfter(r4.err, data)
            ELSE Ok(add_record(data, r4.val))

\* add_contact_gui without the existence test
add_contact_gui_unchecked(data, name, phones_str, email, address, birthday, now) ==
    add_contact_gui_build(data, name, phones_str, email, address, birthday, now)

\* add_contact_gui: the outcome and the mapping it leaves
add_contact_gui(data, name, phones_str, email, address, birthday, now) ==
    IF find(data, name) # None
    THEN RaiseAfter("DataValidationError", data)
    ELSE add_contact_gui_build(data, name, phones_str, email, address, birthday, now)

\* ------------------------------------------------------------------------
\* Calendar arithmetic of datetime.date
\* ------------------------------------------------------------------------

\* days before 1 January of year y, counted from 1 January of year 1
DaysBeforeYear(y) ==
    365 * (y - 1) + ((y - 1) \div 4) - ((y - 1) \div 100) + ((y - 1) \div 400)

RECURSIVE DaysBeforeMonth(_, _)
\* days of year y before the first of month m
DaysBeforeMonth(y, m) ==
    IF m = 1 THEN 0 ELSE DaysBeforeMonth(y, m - 1) + DaysInMonth(y, m - 1)

\* date.toordinal()
ToOrdinal(date) == DaysBeforeYear(date.y) + DaysBeforeMonth(date.y, date.m) + date.d

\* a weekday numbering that starts the week on Sunday
Weekday_sunday_first(date) == ToOrdinal(date) % 7

\* date.weekday(): Monday is 0, Saturday 5, Sunday 6
Weekday(date) == (ToOrdinal(date) + 6) % 7

\* the day after a date
NextDay(date) ==
    IF date.d < DaysInMonth(date.y, date.m) THEN Date(date.y, date.m, date.d + 1)
    ELSE IF date.m < 12 THEN Date(date.y, date.m + 1, 1)
    ELSE Date(date.y + 1, 1, 1)

RECURSIVE AddDays(_, _)
\* date + timedelta(days=n), n >= 0
AddDays(date, n) == IF n = 0 THEN date ELSE AddDays(NextDay(date), n - 1)

\* date.replace(year=y): ValueError when the day does not exist in that year
ReplaceYear(date, y) ==
    IF date.d <= DaysInMonth(y, date.m)
    THEN Ok(Date(y, date.m, date.d))
    ELSE Raise("ValueError")

\* str() of one decimal digit
DigitChar(n) ==
    CASE n = 0 -> "0" [] n = 1 -> "1" [] n = 2 -> "2" [] n = 3 -> "3" [] n = 4 -> "4"
      [] n = 5 -> "5" [] n = 6 -> "6" [] n = 7 -> "7" [] n = 8 -> "8" [] n = 9 -> "9"

\* a number below 100 as two digits
TwoDigits(n) == <<DigitChar(n \div 10), DigitChar(n % 10)>>

\* date.strftime("%d.%m.%Y"), for a year of four digits
Strftime(date) ==
    TwoDigits(date.d) \o <<".">> \o TwoDigits(date.m) \o <<".">>
        \o TwoDigits(date.y \div 100) \o TwoDigits(date.y % 100)

\* Birthday.__str__
Birthday_str(birthday) ==
    IF birthday.value # None THEN Strftime(birthday.value) ELSE <<>>

\* ------------------------------------------------------------------------
\* Renderings of a Record
\* ------------------------------------------------------------------------

RECURSIVE Join(_, _)
\* sep.join(parts)
Join(sep, parts) ==
    IF parts = <<>> THEN <<>>
    ELSE IF Len(parts) = 1 THEN parts[1]
    ELSE parts[1] \o sep \o Join(sep, Tail(parts))

\* Record.__str__: a clause is appended when the attribute is truthy, and a
\* field object is truthy whatever its value
Record_str(rec) ==
    LET phones_str == Join(<<";", " ">>, rec.phones)
        birthday_str == IF rec.birthday # None
                        THEN <<",", " ", "b", "i", "r", "t", "h", "d", "a", "y", ":", " ">> \o Birthday_str(rec.birthday)
                        ELSE <<>>
        email_str == IF rec.email # None
                     THEN <<",", " ", "e", "m", "a", "i", "l", ":", " ">> \o rec.email.value
                     ELSE <<>>
        address_str == IF rec.address # None
                       THEN <<",", " ", "a", "d", "d", "r", "e", "s", "s", ":", " ">> \o rec.address.value
                       ELSE <<>>
    IN  <<"C", "o", "n", "t", "a", "c", "t", " ", "n", "a", "m", "e", ":", " ">> \o rec.name.value
            \o <<",", " ", "p", "h", "o", "n", "e", "s", ":", " ">> \o phones_str
            \o birthday_str \o email_str \o address_str

\* Record.show_birthday
show_birthday(rec) ==
    IF rec.birthday = None \/ rec.birthday.value = None
    THEN <<"N", "o", " ", "b", "i", "r", "t", "h", "d", "a", "y", " ", "s", "e", "t", " ", "f", "o", "r", " ">> \o rec.name.value \o <<".">>
    ELSE rec.name.value \o <<"'", "s", " ", "b", "i", "r", "t", "h", "d", "a", "y", ":", " ">> \o Birthday_str(rec.birthday)

\* ------------------------------------------------------------------------
\* AddressBook.get_upcoming_birthdays
\* ------------------------------------------------------------------------

\* the loop body with a Saturday moved by one day only
upcoming_of_saturday_plus_one(record, days, now) ==
    LET this == ReplaceYear(record.birthday.value, now.y)
    IN  IF this.err # "" THEN this
        ELSE
        LET next == IF DateLess(this.val, now)
                    THEN ReplaceYear(this.val, now.y + 1) ELSE this
        IN  IF next.err # "" THEN next
            ELSE
            LET bday == next.val
                delta == ToOrdinal(bday) - ToOrdinal(now)
                shown == IF Weekday(bday) = 5 THEN AddDays(bday, 1)
                         ELSE IF Weekday(bday) = 6 THEN AddDays(bday, 1)
                         ELSE bday
            IN  IF 0 <= delta /\ delta <= days
                THEN Ok(<< <<record.name.value, Strftime(shown)>> >>)
                ELSE Ok(<<>>)

\* the loop body for one record with a birthday: <<>> when the record is left
\* out, else the one pair (name, displayed date); ValueError from replace()
upcoming_of(record, days, now) ==
    LET this == ReplaceYear(record.birthday.value, now.y)
    IN  IF this.err # "" THEN this
        ELSE
        LET next == IF DateLess(this.val, now)
                    THEN ReplaceYear(this.val, now.y + 1) ELSE this
        IN  IF next.err # "" THEN next
            ELSE
            LET bday == next.val
                delta == ToOrdinal(bday) - ToOrdinal(now)
                shown == IF Weekday(bday) = 5 THEN AddDays(bday, 2)
                         ELSE IF Weekday(bday) = 6 THEN AddDays(bday, 1)
                         ELSE bday
            IN  IF 0 <= delta /\ delta <= days
                THEN Ok(<< <<record.name.value, Strftime(shown)>> >>)
                ELSE Ok(<<>>)

RECURSIVE upcoming_list(_, _, _)
\* the list `upcoming` after the loop over the records, or the exception
\* that ended the loop
upcoming_list(records, days, now) ==
    IF records = <<>> THEN Ok(<<>>)
    ELSE LET record == Head(records)
             skip == record.birthday = None \/ record.birthday.value = None
             one == IF skip THEN Ok(<<>>) ELSE upcoming_of(record, days, now)
         IN  IF one.err # "" THEN one
             ELSE LET rest == upcoming_list(Tail(records), days, now)
                  IN  IF rest.err # "" THEN rest ELSE Ok(one.val \o rest.val)

RECURSIVE InsertByDate(_, _)
\* a pair put into a list sorted by date, after the pairs that are not later
InsertByDate(sorted, pair) ==
    IF sorted = <<>> THEN <<pair>>
    ELSE IF DateLess(Strptime(pair[2]).val, Strptime(Head(sorted)[2]).val)
    THEN <<pair>> \o sorted
    ELSE <<Head(sorted)>> \o InsertByDate(Tail(sorted), pair)

RECURSIVE SortedByDate(_)
\* sorted(upcoming, key=lambda x: datetime.strptime(x[1], "%d.%m.%Y")): stable
SortedByDate(pairs) ==
    IF pairs = <<>> THEN <<>>
    ELSE InsertByDate(SortedByDate(SubSeq(pairs, 1, Len(pairs) - 1)), pairs[Len(pairs)])

\* get_upcoming_birthdays without the sort
get_upcoming_birthdays_unsorted(data, days, now) ==
    upcoming_list(DictValues(data), days, now)

\* get_upcoming_birthdays(days) when date.today() is now: the lines
\* "<name>: <date>" as pairs in the order they are printed; no line stands
\* for the text "No upcoming birthdays."
get_upcoming_birthdays(data, days, now) ==
    LET upcoming == upcoming_list(DictValues(data), days, now)
    IN  IF upcoming.err # "" THEN upcoming ELSE Ok(SortedByDate(upcoming.val))

\* edit_note_gui: the content is replaced and the tags are cleared before the
\* new tags are added one by one
edit_note_gui(note, new_content, new_tags) ==
    add_tags_in_order([note EXCEPT !.content = new_content, !.tags = {}], new_tags)

\* str(Birthday(value)) when date.today() is now
Birthday_init_str(value, now) ==
    LET b == Birthday_validate(value, now)
    IN  IF b.err # "" THEN b ELSE Ok(Birthday_str(Field(b.val)))

\* str(Phone(value))
Phone_init_str(value) == Phone_validate(value)

\* edit_contact_gui: the record is changed in place, so the outcome carries
\* the record as the call leaves it, also when it raises. The phones are
\* cleared before the new ones are validated one by one.
edit_contact_gui(record, new_phones_str, new_email, new_address, new_birthday, now) ==
    LET new_phone_numbers == StripNonBlank(Split(new_phones_str, ","))
    IN  IF new_phone_numbers = <<>> THEN RaiseAfter("DataValidationError", record)
        ELSE
        LET r1 == add_phones_in_order([record EXCEPT !.phones = <<>>], new_phone_numbers)
            old_email == IF record.email # None THEN record.email.value ELSE <<>>
            old_address == IF record.address # None THEN record.address.value ELSE <<>>
            old_birthday == IF record.birthday # None
                            THEN Birthday_str(record.birthday) ELSE <<>>
            r2 == IF new_email # old_email THEN add_email(r1.val, new_email) ELSE r1
            r3 == IF new_address # old_address
                  THEN add_address(r2.val, new_address) ELSE r2
            r4 == IF new_birthday # old_birthday
                  THEN add_birthday(r3.val, new_birthday, now) ELSE r3
        IN  IF r1.err # "" THEN r1
            ELSE IF r2.err # "" THEN r2
            ELSE IF r3.err # "" THEN r3
            ELSE r4

\* ------------------------------------------------------------------------
\* Queries on the NoteBook: tag search and sorted listings
\* ------------------------------------------------------------------------

\* the characters of the model in the order of their code points
CodePointOrder ==
    << "\t", "\n", " ", "#", "%", "'", "+", ",", "-", ".", "0", "1", "2",
       "3", "4", "5", "6", "7", "8", "9", ":", ";", "@", "A", "B", "C",
       "D", "E", "F", "G", "H", "I", "J", "K", "L", "M", "N", "O", "P",
       "Q", "R", "S", "T", "U", "V", "W", "X", "Y", "Z", "_", "a", "b",
       "c", "d", "e", "f", "g", "h", "i", "j", "k", "l", "m", "n", "o",
       "p", "q", "r", "s", "t", "u", "v", "w", "x", "y", "z", SharpS, ArabicThree >>

\* the rank of a character among the characters of the model
CharRank(c) == CHOOSE i \in 1..Len(CodePointOrder) : CodePointOrder[i] = c

RECURSIVE StrLess(_, _)
\* a < b on two strings: the first differing character decides, a proper
\* prefix comes first
StrLess(a, b) ==
    IF b = <<>> THEN FALSE
    ELSE IF a = <<>> THEN TRUE
    ELSE IF Head(a) # Head(b) THEN CharRank(Head(a)) < CharRank(Head(b))
    ELSE StrLess(Tail(a), Tail(b))

\* s.startswith(q)
StartsWith(s, q) == Len(q) <= Len(s) /\ SubSeq(s, 1, Len(q)) = q

\* NoteBook.find_notes_by_tag: the notes that have the cleaned tag, in
\* insertion order
find_notes_by_tag(data, tag) ==
    IF cleaned_tag(tag) = <<>> \/ Contains(<<" ">>, cleaned_tag(tag))
    THEN Raise("InvalidTagFormatError")
    ELSE Ok(SelectSeq(DictValues(data), LAMBDA note : cleaned_tag(tag) \in note.tags))

\* the sort key with the tag count ascending
tag_count_key_less_ascending(a, b) ==
    \/ Cardinality(a.tags) < Cardinality(b.tags)
    \/ Cardinality(a.tags) = Cardinality(b.tags) /\ StrLess(Lower(a.title), Lower(b.title))

\* the sort key of sort_notes_by_tag_count: (-len(note.tags), note.title.lower())
tag_count_key_less(a, b) ==
    \/ Cardinality(a.tags) > Cardinality(b.tags)
    \/ Cardinality(a.tags) = Cardinality(b.tags) /\ StrLess(Lower(a.title), Lower(b.title))

RECURSIVE InsertByTagCount(_, _)
\* a note put into a sorted list, after the notes whose key is not greater
InsertByTagCount(sorted, note) ==
    IF sorted = <<>> THEN <<note>>
    ELSE IF tag_count_key_less(note, Head(sorted))
    THEN <<note>> \o sorted
    ELSE <<Head(sorted)>> \o InsertByTagCount(Tail(sorted), note)

RECURSIVE SortedByTagCount(_)
\* sorted(values, key=...): stable
SortedByTagCount(values) ==
    IF values = <<>> THEN <<>>
    ELSE InsertByTagCount(SortedByTagCount(SubSeq(values, 1, Len(values) - 1)),
                          values[Len(values)])

\* NoteBook.sort_notes_by_tag_count
sort_notes_by_tag_count(data) == SortedByTagCount(DictValues(data))

RECURSIVE CleanNonBlank(_)
\* [tag.strip().lower().lstrip('#') for tag in pieces if tag.strip()]
CleanNonBlank(pieces) ==
    IF pieces = <<>> THEN <<>>
    ELSE (IF Strip(Head(pieces)) # <<>> THEN <<cleaned_tag(Head(pieces))>> ELSE <<>>)
            \o CleanNonBlank(Tail(pieces))

\* the search with any() over the query tags in place of all()
search_notes_by_any_tag_gui(query_str, data) ==
    LET query_tags == CleanNonBlank(Split(query_str, ","))
    IN  IF query_tags = <<>> THEN <<>>
        ELSE SelectSeq(DictValues(data),
                LAMBDA note :
                    \E i \in 1..Len(query_tags) :
                        \E note_tag \in note.tags : StartsWith(note_tag, query_tags[i]))

\* search_notes_by_multiple_tags_gui: the notes that have, for every query
\* tag, a tag that starts with it; none when there is no query tag
search_notes_by_multiple_tags_gui(query_str, data) ==
    LET query_tags == CleanNonBlank(Split(query_str, ","))
    IN  IF query_tags = <<>> THEN <<>>
        ELSE SelectSeq(DictValues(data),
                LAMBDA note :
                    \A i \in 1..Len(query_tags) :
                        \E note_tag \in note.tags : StartsWith(note_tag, query_tags[i]))

\* ------------------------------------------------------------------------
\* CLI (assistant/main.py). A handler runs under @input_error, which turns
\* every Exception into the text that is printed; the outcome of a command is
\* [err, val, ret]: the exception raised inside the handler ("" for none),
\* the collection as the command leaves it, and the kind of text returned.
\* `steps` are the states of the collection the handler passes through.
\* ------------------------------------------------------------------------

Outcome(err, val, ret, steps) == [err |-> err, val |-> val, ret |-> ret, steps |-> steps]

\* add_contact(args, book)
cli_add_contact(data, args) ==
    IF Len(args) < 2 THEN Outcome("ValueError", data, "", <<data>>)
    ELSE
    LET name == args[1]
        phone == args[2]
        optional_fields == SubSeq(args, 3, Len(args))
        is_new == find(data, name) = None
        made == IF is_new THEN Record_init(name) ELSE Ok(find(data, name))
    IN  IF made.err # "" THEN Outcome(made.err, data, "", <<data>>)
        ELSE
        LET r1 == add_phone(made.val, phone)
        IN  IF r1.err # ""
            THEN Outcome("", data, IF is_new THEN "not_created" ELSE "not_added", <<data>>)
            ELSE
            LET d1 == IF is_new THEN add_record(data, r1.val)
                      ELSE DictSet(data, AddressBook_key(name), r1.val)
                r2 == IF optional_fields # <<>>
                      THEN add_email(r1.val, optional_fields[1]) ELSE r1
                d2 == DictSet(d1, AddressBook_key(r1.val.name.value), r2.val)
                r3 == IF Len(optional_fields) > 1
                      THEN add_address(r2.val, Join(<<" ">>, Tail(optional_fields)))
                      ELSE r2
                d3 == DictSet(d2, AddressBook_key(r1.val.name.value), r3.val)
                ret == IF is_new THEN "added" ELSE "phone_added"
            IN  IF r2.err # "" THEN Outcome(r2.err, d1, "", <<data, d1>>)
                ELSE Outcome("", d3, ret, <<data, d1, d2, d3>>)

\* change_contact(args, book)
cli_change_contact(data, args) ==
    IF Len(args) < 3 THEN Outcome("ValueError", data, "", <<data>>)
    ELSE IF find(data, args[1]) = None
    THEN Outcome("ContactNotFoundError", data, "", <<data>>)
    ELSE LET r == edit_phone(find(data, args[1]), args[2], args[3])
             d == DictSet(data, AddressBook_key(args[1]), r.val)
         IN  Outcome(r.err, d, IF r.err = "" THEN "changed" ELSE "", <<data, d>>)

RECURSIVE SplitWhitespace(_)
\* str.split(): the pieces between runs of whitespace
SplitWhitespace(s) ==
    IF s = <<>> THEN <<>>
    ELSE IF Head(s) \in Whitespace THEN SplitWhitespace(Tail(s))
    ELSE LET n == IF \E i \in 1..Len(s) : s[i] \in Whitespace
                  THEN (CHOOSE i \in 1..Len(s) :
                            s[i] \in Whitespace /\ \A k \in 1..(i - 1) : s[k] \notin Whitespace) - 1
                  ELSE Len(s)
         IN  <<SubSeq(s, 1, n)>> \o SplitWhitespace(SubSeq(s, n + 1, Len(s)))

\* str.find('#') counted from 1: 0 when there is none
FindHash(s) ==
    IF \E i \in 1..Len(s) : s[i] = "#"
    THEN CHOOSE i \in 1..Len(s) : s[i] = "#" /\ \A k \in 1..(i - 1) : s[k] # "#"
    ELSE 0

\* add_note(args, notes)
cli_add_note(data, args) ==
    IF Len(args) < 2 THEN Outcome("ValueError", data, "", <<data>>)
    ELSE
    LET title == args[1]
        note_exists == find_note_by_id(data, title) # None
        rest == Join(<<" ">>, Tail(args))
        hash_index == FindHash(rest)
        content == IF hash_index # 0 THEN Strip(SubSeq(rest, 1, hash_index - 1))
                   ELSE Strip(rest)
        tags == IF hash_index # 0
                THEN SelectSeq(SplitWhitespace(SubSeq(rest, hash_index, Len(rest))),
                               LAMBDA tag : StartsWith(tag, <<"#">>))
                ELSE <<>>
        note == Note_init(title, content, tags)
    IN  IF note.err # "" THEN Outcome(note.err, data, "", <<data>>)
        ELSE Outcome("", add_note(data, note.val),
                     IF note_exists THEN "updated" ELSE "added",
                     <<data, add_note(data, note.val)>>)

\* main() with no handler for EOFError: the exception leaves main() past
\* the final save_data call
main_after_eof_uncaught(event) ==
    IF event = "eof" THEN "done"
    ELSE IF event \in {"close", "interrupt"} THEN "exited" ELSE "prompt"

\* main(): where control is after an event of the loop. A command, an empty
\* line and an unknown command lead back to the prompt; close or exit,
\* EOFError at the prompt and KeyboardInterrupt leave the loop for the final
\* save_data call
main_after(event) ==
    IF event \in {"close", "eof", "interrupt"} THEN "exited" ELSE "prompt"

\* ------------------------------------------------------------------------
\* Inputs
\* ------------------------------------------------------------------------

\* longest phone list a record is taken to
MaxPhones == 2

\* " Ann ", "ann", "Ru<sharp s>": names a record is created with
RecordNames == { <<" ", "A", "n", "n", " ">>, <<"a", "n", "n">>, <<"R", "u", SharpS>> }

\* "ANN", "\tann\n", "RUSS", "russ", "Eve", "Al", "": further names of lookups
QueryNames ==
    RecordNames \cup { <<"A", "N", "N">>, <<"\t", "a", "n", "n", "\n">>,
                       <<"R", "U", "S", "S">>, <<"E", "v", "e">>, <<"A", "l">>, <<>> }

\* "1112223333"
Phone1 == <<"1", "1", "1", "2", "2", "2", "3", "3", "3", "3">>

\* "7778889999"
Phone2 == <<"7", "7", "7", "8", "8", "8", "9", "9", "9", "9">>

\* "123", "111222333x", "": not phone numbers
BadPhones == { <<"1", "2", "3">>,
               <<"1", "1", "1", "2", "2", "2", "3", "3", "3", "x">>, <<>> }

PhoneInputs == {Phone1, Phone2} \cup BadPhones

\* "a@B.io"
Email1 == <<"a", "@", "B", ".", "i", "o">>

\* "bad-email" without its tail, "a@b.c": not e-mail addresses
EmailInputs == { Email1, <<"b", "a", "d">>, <<"a", "@", "b", ".", "c">> }

\* "1 Main"
Address1 == <<"1", " ", "M", "a", "i", "n">>

\* date.today() of the session
Today0 == Date(2024, 6, 14)

\* "01.03.2000"
Birthday1 == <<"0", "1", ".", "0", "3", ".", "2", "0", "0", "0">>

\* "01.03.2000", "99.99.2023", "15.06.2024" (tomorrow), "2000-03-01"
BirthdayInputs ==
    { Birthday1,
      <<"9", "9", ".", "9", "9", ".", "2", "0", "2", "3">>,
      <<"1", "5", ".", "0", "6", ".", "2", "0", "2", "4">>,
      <<"2", "0", "0", "0", "-", "0", "3", "-", "0", "1">> }

\* "888", "ANN", "b.IO", "main", "3337" (end of Phone1 + start of Phone2),
\* "2000" (only in Birthday1), "", "zz"
Queries ==
    { <<"8", "8", "8">>, <<"A", "N", "N">>, <<"b", ".", "I", "O">>,
      <<"m", "a", "i", "n">>, <<"3", "3", "3", "7">>, <<"2", "0", "0", "0">>,
      <<>>, <<"z", "z">> }

\* the phone lists of the records handed to add_record
NewRecordPhones == { <<>>, <<Phone1>>, <<Phone2, Phone1>> }

\* ------------------------------------------------------------------------
\* State
\* ------------------------------------------------------------------------

VARIABLES
    book,     \* AddressBook.data
    notes,    \* NoteBook.data
    today,    \* date.today()
    last,     \* the last call: operation, arguments, exception, return value
    pc,       \* where main() is: at the prompt, past the loop, or returned
    saved     \* the arguments of the save_data calls made so far

vars == <<book, notes, today, last, pc, saved>>

Call(op, arg, err, ret) == [op |-> op, arg |-> arg, err |-> err, ret |-> ret]

\* the value of an Optional return in last.ret: <<>> for None, else <<v>>
Opt(v) == IF v = None THEN <<>> ELSE <<v>>

Init ==
    /\ book = <<>>
    /\ notes = <<>>
    /\ today = Today0
    /\ last = Call("init", <<>>, "", <<>>)
    /\ pc = "prompt"
    /\ saved = <<>>

\* ------------------------------------------------------------------------
\* Address book operations. Each takes the sets its arguments are drawn from.
\* ------------------------------------------------------------------------

\* book.add_record(record) for a record built by Record(name) and add_phone
AddRecord(names, phoneLists) ==
    \E name \in names : \E phones \in phoneLists :
      LET record == add_phones_in_order(Record_init(name).val, phones).val
      IN  /\ book' = add_record(book, record)
          /\ last' = Call("add_record", <<record>>, "", <<>>)
          /\ UNCHANGED <<notes, today, pc, saved>>

\* book.find(name)
Find(names) ==
    \E name \in names :
      /\ last' = Call("find", <<name>>, "", Opt(find(book, name)))
      /\ UNCHANGED <<book, notes, today, pc, saved>>

\* book.delete(name)
Delete(names) ==
    \E name \in names :
      LET r == delete(book, name)
      IN  /\ book' = r.val
          /\ last' = Call("delete", <<name>>, r.err, <<>>)
          /\ UNCHANGED <<notes, today, pc, saved>>

\* book.search_contacts(query)
SearchContacts(queries) ==
    \E query \in queries :
      /\ last' = Call("search_contacts", <<query>>, "", search_contacts(book, query))
      /\ UNCHANGED <<book, notes, today, pc, saved>>

\* add_contact_gui(name, phones_str, email, address, birthday, book)
AddContactGui(forms) ==
    \E f \in forms :
      LET r == add_contact_gui(book, f[1], f[2], f[3], f[4], f[5], today)
      IN  /\ book' = r.val
          /\ last' = Call("add_contact_gui", f, r.err, <<>>)
          /\ UNCHANGED <<notes, today, pc, saved>>

\* The methods of the record that book.find(name) returns change that record
\* in place, in the mapping.

\* book.find(name).add_phone(number)
AddPhone(names, numbers) ==
    \E name \in names : \E number \in numbers :
      LET r == add_phone(find(book, name), number)
      IN  /\ find(book, name) # None
          /\ Len(r.val.phones) <= MaxPhones
          /\ book' = DictSet(book, AddressBook_key(name), r.val)
          /\ last' = Call("add_phone", <<name, number>>, r.err, <<>>)
          /\ UNCHANGED <<notes, today, pc, saved>>

\* book.find(name).edit_phone(old, new)
EditPhone(names, numbers) ==
    \E name \in names : \E old \in numbers : \E new \in numbers :
      LET r == edit_phone(find(book, name), old, new)
      IN  /\ find(book, name) # None
          /\ book' = DictSet(book, AddressBook_key(name), r.val)
          /\ last' = Call("edit_phone", <<name, old, new>>, r.err, <<>>)
          /\ UNCHANGED <<notes, today, pc, saved>>

\* book.find(name).delete_phone(number)
DeletePhone(names, numbers) ==
    \E name \in names : \E number \in numbers :
      LET r == delete_phone(find(book, name), number)
      IN  /\ find(book, name) # None
          /\ book' = DictSet(book, AddressBook_key(name), r.val)
          /\ last' = Call("delete_phone", <<name, number>>, r.err, <<>>)
          /\ UNCHANGED <<notes, today, pc, saved>>

\* book.find(name).add_email(email)
AddEmail(names, emails) ==
    \E name \in names : \E email \in emails :
      LET r == add_email(find(book, name), email)
      IN  /\ find(book, name) # None
          /\ book' = DictSet(book, AddressBook_key(name), r.val)
          /\ last' = Call("add_email", <<name, email>>, r.err, <<>>)
          /\ UNCHANGED <<notes, today, pc, saved>>

\* book.find(name).add_address(address)
AddAddress(names, addresses) ==
    \E name \in names : \E address \in addresses :
      LET r == add_address(find(book, name), address)
      IN  /\ find(book, name) # None
          /\ book' = DictSet(book, AddressBook_key(name), r.val)
          /\ last' = Call("add_address", <<name, address>>, r.err, <<>>)
          /\ UNCHANGED <<notes, today, pc, saved>>

\* book.find(name).add_birthday(date_str)
AddBirthday(names, dates) ==
    \E name \in names : \E date_str \in dates :
      LET r == add_birthday(find(book, name), date_str, today)
      IN  /\ find(book, name) # None
          /\ book' = DictSet(book, AddressBook_key(name), r.val)
          /\ last' = Call("add_birthday", <<name, date_str>>, r.err, <<>>)
          /\ UNCHANGED <<notes, today, pc, saved>>

\* --- the directory: records come in whole, are looked up and removed ------

\* "1112223333, 7778889999"
PhonesStr1 == Phone1 \o <<",", " ">> \o Phone2

\* the forms add_contact_gui is called with
GuiForms ==
    { <<n, p, e, Address1, b>> :
        n \in RecordNames \cup {<<"A", "l">>},
        p \in {PhonesStr1, <<" ", ",">>, Phone1 \o <<",", "1">>},
        e \in {Email1, <<"b", "a", "d">>},
        b \in {Birthday1, <<"9", "9", ".", "9", "9", ".", "2", "0", "2", "3">>} }

NextBook ==
    \/ AddRecord(RecordNames, NewRecordPhones)
    \/ Find(QueryNames)
    \/ Delete(QueryNames)
    \/ SearchContacts(Queries)
    \/ AddContactGui(GuiForms)

SpecBook == Init /\ [][NextBook]_vars

\* --- one record: its fields are edited in place ---------------------------

\* "ANN": the name the record is looked up by
LookupNames == { <<"A", "N", "N">> }

NextRecord ==
    \/ AddRecord({<<" ", "A", "n", "n", " ">>}, {<<>>})
    \/ AddPhone(LookupNames, PhoneInputs)
    \/ EditPhone(LookupNames, PhoneInputs)
    \/ DeletePhone(LookupNames, PhoneInputs)
    \/ AddEmail(LookupNames, EmailInputs)
    \/ AddAddress(LookupNames, {Address1})
    \/ AddBirthday(LookupNames, BirthdayInputs)

SpecRecord == Init /\ [][NextRecord]_vars

\* ------------------------------------------------------------------------
\* Notebook operations
\* ------------------------------------------------------------------------

\* notes.add_note(Note(title, content, tags)): nothing is added when the
\* constructor raises
AddNote(titles, contents, tagLists) ==
    \E title \in titles : \E content \in contents : \E tags \in tagLists :
      LET n == Note_init(title, content, tags)
      IN  /\ notes' = IF n.err = "" THEN add_note(notes, n.val) ELSE notes
          /\ last' = Call("add_note", <<title, content, tags>>, n.err, <<>>)
          /\ UNCHANGED <<book, today, pc, saved>>

\* notes.edit_note_text(title, new_text)
EditNoteText(titles, contents) ==
    \E title \in titles : \E new_text \in contents :
      LET r == edit_note_text(notes, title, new_text)
      IN  /\ notes' = r.val
          /\ last' = Call("edit_note_text", <<title, new_text>>, r.err, <<>>)
          /\ UNCHANGED <<book, today, pc, saved>>

\* notes.delete_note(title)
DeleteNote(titles) ==
    \E title \in titles :
      LET r == delete_note(notes, title)
      IN  /\ notes' = r.val
          /\ last' = Call("delete_note", <<title>>, r.err, <<>>)
          /\ UNCHANGED <<book, today, pc, saved>>

\* notes.add_tag_to_note(title, tags)
AddTagToNote(titles, tagLists) ==
    \E title \in titles : \E tags \in tagLists :
      LET r == add_tag_to_note(notes, title, tags)
      IN  /\ notes' = r.val
          /\ last' = Call("add_tag_to_note", <<title, tags>>, r.err, <<>>)
          /\ UNCHANGED <<book, today, pc, saved>>

\* notes.remove_tag_from_note(title, tag)
RemoveTagFromNote(titles, tags) ==
    \E title \in titles : \E tag \in tags :
      LET r == remove_tag_from_note(notes, title, tag)
      IN  /\ notes' = r.val
          /\ last' = Call("remove_tag_from_note", <<title, tag>>, r.err, <<>>)
          /\ UNCHANGED <<book, today, pc, saved>>

\* --- the session: both collections, entries added, edited and removed ----

\* " Todo ", "todo", "Stra<sharp s>e": titles a note is created with
NoteTitles ==
    { <<" ", "T", "o", "d", "o", " ">>, <<"t", "o", "d", "o">>,
      <<"S", "t", "r", "a", SharpS, "e">> }

\* "buy"
Content1 == <<"b", "u", "y">>

\* "call"
Content2 == <<"c", "a", "l", "l">>

\* "#Work"
TagWork == <<"#", "W", "o", "r", "k">>

\* "ANN", "Eve": the names the session looks up
SessionNames == { <<"A", "N", "N">>, <<"E", "v", "e">> }

\* "TODO", "none": the titles the session looks up
SessionTitles == { <<"T", "O", "D", "O">>, <<"n", "o", "n", "e">> }

Next ==
    \/ AddRecord(RecordNames, {<<Phone1>>})
    \/ Delete(SessionNames)
    \/ DeletePhone(SessionNames, {Phone1, Phone2})
    \/ AddNote(NoteTitles, {Content1}, {<<>>})
    \/ EditNoteText(SessionTitles, {Content2})
    \/ DeleteNote(SessionTitles)
    \/ AddTagToNote(SessionTitles, {<<TagWork>>})
    \/ RemoveTagFromNote(SessionTitles, {TagWork})

Spec == Init /\ [][Next]_vars

\* --- birthdays: records get a birthday and the reminders are listed -------

\* book.get_upcoming_birthdays(days)
GetUpcomingBirthdays(daysSet) ==
    \E days \in daysSet :
      LET r == get_upcoming_birthdays(book, days, today)
      IN  /\ last' = Call("get_upcoming_birthdays", <<days>>, r.err, r.val)
          /\ UNCHANGED <<book, notes, today, pc, saved>>

\* str(book.find(name))
RecordStr(names) ==
    \E name \in names :
      /\ find(book, name) # None
      /\ last' = Call("str", <<name>>, "", Record_str(find(book, name)))
      /\ UNCHANGED <<book, notes, today, pc, saved>>

\* book.find(name).show_birthday()
ShowBirthday(names) ==
    \E name \in names :
      /\ find(book, name) # None
      /\ last' = Call("show_birthday", <<name>>, "", show_birthday(find(book, name)))
      /\ UNCHANGED <<book, notes, today, pc, saved>>

\* "Ann", "Bob"
BirthdayNames == { <<"A", "n", "n">>, <<"B", "o", "b">> }

\* Wednesday 12 June 2024, Saturday 30 December 2023, Tuesday 27 February 2024
Todays == { Date(2024, 6, 12), Date(2023, 12, 30), Date(2024, 2, 27) }

\* "14.06.1998" is a Friday in 2024, "15.06.2000" a Saturday, "16.06.2001" a
\* Sunday, "17.06.1999" a Monday; "30.12.1999" is a Saturday in 2023;
\* "29.02.2000"; "" and " "
BirthdayTexts ==
    { <<"1", "4", ".", "0", "6", ".", "1", "9", "9", "8">>,
      <<"1", "5", ".", "0", "6", ".", "2", "0", "0", "0">>,
      <<"1", "6", ".", "0", "6", ".", "2", "0", "0", "1">>,
      <<"1", "7", ".", "0", "6", ".", "1", "9", "9", "9">>,
      <<"3", "0", ".", "1", "2", ".", "1", "9", "9", "9">>,
      <<"2", "9", ".", "0", "2", ".", "2", "0", "0", "0">>,
      <<>>, <<" ">> }

\* the look-ahead windows asked for
DaysAhead == {0, 3, 7}

InitBirthdays ==
    /\ book = <<>>
    /\ notes = <<>>
    /\ today \in Todays
    /\ last = Call("init", <<>>, "", <<>>)
    /\ pc = "prompt"
    /\ saved = <<>>

NextBirthdays ==
    \/ AddRecord(BirthdayNames, {<<>>})
    \/ AddBirthday(BirthdayNames, BirthdayTexts)
    \/ GetUpcomingBirthdays(DaysAhead)
    \/ RecordStr(BirthdayNames)
    \/ ShowBirthday(BirthdayNames)

SpecBirthdays == InitBirthdays /\ [][NextBirthdays]_vars

\* --- field construction: a text is turned into a field and rendered -------

\* str(Birthday(text))
NewBirthday(texts) ==
    \E text \in texts :
      LET r == Birthday_init_str(text, today)
      IN  /\ last' = Call("Birthday", <<text>>, r.err, r.val)
          /\ UNCHANGED <<book, notes, today, pc, saved>>

\* str(Phone(text))
NewPhone(texts) ==
    \E text \in texts :
      LET r == Phone_init_str(text)
      IN  /\ last' = Call("Phone", <<text>>, r.err, r.val)
          /\ UNCHANGED <<book, notes, today, pc, saved>>

\* the texts DD.MM.YYYY for a few days, months and years: dates before, on
\* and after each value of today, and days that some months do not have
PaddedDateTexts ==
    { dd \o <<".">> \o mm \o <<".">> \o yy :
        dd \in { <<"0", "1">>, <<"1", "2">>, <<"2", "9">>, <<"3", "1">> },
        mm \in { <<"0", "2">>, <<"0", "6">>, <<"1", "2">> },
        yy \in { <<"2", "0", "0", "0">>, <<"2", "0", "2", "3">>, <<"2", "0", "2", "4">>, <<"2", "0", "2", "5">> } }

\* "", " ", "1.3.2000", " 01.03.2000 ", "01.03.2000\n", "2000-03-01", "abc",
\* "01.13.2000", "00.01.2000", "01.03.20", "1<arabic 3>.03.2000"
OddDateTexts ==
    { <<>>, <<" ">>,
      <<"1", ".", "3", ".", "2", "0", "0", "0">>,
      <<" ", "0", "1", ".", "0", "3", ".", "2", "0", "0", "0", " ">>,
      <<"0", "1", ".", "0", "3", ".", "2", "0", "0", "0", "\n">>,
      <<"2", "0", "0", "0", "-", "0", "3", "-", "0", "1">>,
      <<"a", "b", "c">>,
      <<"0", "1", ".", "1", "3", ".", "2", "0", "0", "0">>,
      <<"0", "0", ".", "0", "1", ".", "2", "0", "0", "0">>,
      <<"0", "1", ".", "0", "3", ".", "2", "0">>,
      <<"1", ArabicThree, ".", "0", "3", ".", "2", "0", "0", "0">> }

\* "12345678901", " 111222333", "+111222333", ten times <arabic 3>,
\* "111222333<arabic 3>"
OddPhoneTexts ==
    { <<"1", "2", "3", "4", "5", "6", "7", "8", "9", "0", "1">>,
      <<" ", "1", "1", "1", "2", "2", "2", "3", "3", "3">>,
      <<"+", "1", "1", "1", "2", "2", "2", "3", "3", "3">>,
      <<ArabicThree, ArabicThree, ArabicThree, ArabicThree, ArabicThree, ArabicThree, ArabicThree, ArabicThree, ArabicThree, ArabicThree>>,
      <<"1", "1", "1", "2", "2", "2", "3", "3", "3", ArabicThree>> }

NextFields ==
    \/ NewBirthday(PaddedDateTexts \cup OddDateTexts)
    \/ NewPhone(PhoneInputs \cup OddPhoneTexts)

SpecFields == InitBirthdays /\ [][NextFields]_vars

\* --- tags: one note is created, tagged, untagged and edited ---------------

\* edit_note_gui(notes.find_note_by_id(title), new_content, new_tags): the
\* note is changed in place, also when a tag raises
EditNoteGui(titles, contents, tagLists) ==
    \E title \in titles : \E new_content \in contents : \E new_tags \in tagLists :
      LET r == edit_note_gui(find_note_by_id(notes, title), new_content, new_tags)
      IN  /\ find_note_by_id(notes, title) # None
          /\ notes' = DictSet(notes, NoteBook_key(title), r.val)
          /\ last' = Call("edit_note_gui", <<title, new_content, new_tags>>, r.err, <<>>)
          /\ UNCHANGED <<book, today, pc, saved>>

\* " Todo "
TitleTodo == <<" ", "T", "o", "d", "o", " ">>

\* "todo": the title the note is looked up with
TagTitles == { <<"t", "o", "d", "o">> }

\* "work"
TagPlain == <<"w", "o", "r", "k">>

\* " WORK "
TagSpaced == <<" ", "W", "O", "R", "K", " ">>

\* "a b"
TagTwoWords == <<"a", " ", "b">>

\* "a\tb"
TagWithTab == <<"a", "\t", "b">>

\* "x"
TagX == <<"x">>

\* the tags handed over one at a time; "" and "#" clean to nothing
TagInputs == { TagWork, TagPlain, TagSpaced, TagTwoWords, TagWithTab, TagX, <<>>, <<"#">> }

\* the tag lists handed over: one tag, the same tag written twice, and a
\* list whose second tag is refused
TagLists ==
    { <<t>> : t \in TagInputs } \cup { <<TagWork, TagPlain>>, <<TagX, TagTwoWords>>, <<>> }

NextNotes ==
    \/ AddNote({TitleTodo}, {Content1}, TagLists)
    \/ AddTagToNote(TagTitles, TagLists)
    \/ RemoveTagFromNote(TagTitles, TagInputs)
    \/ EditNoteGui(TagTitles, {Content2}, TagLists)

SpecNotes == Init /\ [][NextNotes]_vars

\* --- the notebook: notes are put in, tagged, searched and listed ----------

\* notes.find_notes_by_tag(tag)
FindNotesByTag(tags) ==
    \E tag \in tags :
      LET r == find_notes_by_tag(notes, tag)
      IN  /\ last' = Call("find_notes_by_tag", <<tag>>, r.err, r.val)
          /\ UNCHANGED <<book, notes, today, pc, saved>>

\* search_notes_by_multiple_tags_gui(query_str, notes)
SearchNotesByMultipleTagsGui(queries) ==
    \E query_str \in queries :
      /\ last' = Call("search_notes_by_multiple_tags_gui", <<query_str>>, "",
                      search_notes_by_multiple_tags_gui(query_str, notes))
      /\ UNCHANGED <<book, notes, today, pc, saved>>

\* notes.sort_notes_by_tag_count()
SortNotesByTagCount ==
    /\ last' = Call("sort_notes_by_tag_count", <<>>, "", sort_notes_by_tag_count(notes))
    /\ UNCHANGED <<book, notes, today, pc, saved>>

\* "Zebra", "Apple", "apple " (the key of "Apple")
ShelfTitles == { <<"Z", "e", "b", "r", "a">>, <<"A", "p", "p", "l", "e">>, <<"a", "p", "p", "l", "e", " ">> }

\* "APPLE", "none": the titles looked up
ShelfLookups == { <<"A", "P", "P", "L", "E">>, <<"n", "o", "n", "e">> }

\* "urgent"
TagUrgent == <<"u", "r", "g", "e", "n", "t">>

\* the tag lists notes are created with: none, "#Work", "urgent" and "work"
ShelfTagLists == { <<>>, <<TagWork>>, <<TagUrgent, TagPlain>> }

\* the tag list added later: "urgent", "a b", "work"
ShelfMoreTags == { <<TagUrgent, TagTwoWords, TagPlain>> }

\* "urg"
TagUrg == <<"u", "r", "g">>

\* the tags notes are searched by
ShelfTagQueries == { TagWork, TagUrg, TagWithTab, TagTwoWords, <<>> }

\* "work, ur", "urg", "#", " , ": the texts of the prefix search
ShelfPrefixQueries == { <<"w", "o", "r", "k", ",", " ", "u", "r">>, TagUrg, <<"#">>, <<" ", ",", " ">> }

NextNoteBook ==
    \/ AddNote(ShelfTitles, {Content1}, ShelfTagLists)
    \/ AddTagToNote(ShelfLookups, ShelfMoreTags)
    \/ RemoveTagFromNote(ShelfLookups, {TagWork, TagUrg})
    \/ FindNotesByTag(ShelfTagQueries)
    \/ SearchNotesByMultipleTagsGui(ShelfPrefixQueries)

SpecNoteBook == Init /\ [][NextNoteBook]_vars

\* --- the listing by tag count ---------------------------------------------

\* "Zebra", "Apple", "Ideas"
ListedTitles == { <<"Z", "e", "b", "r", "a">>, <<"A", "p", "p", "l", "e">>, <<"I", "d", "e", "a", "s">> }

NextSorted ==
    \/ AddNote(ListedTitles, {Content1}, ShelfTagLists)
    \/ SortNotesByTagCount

SpecSorted == Init /\ [][NextSorted]_vars

\* --- the edit form: one contact is edited through the GUI backend --------

\* edit_contact_gui(book.find(name), phones, email, address, birthday)
EditContactGui(names, forms) ==
    \E name \in names : \E f \in forms :
      LET r == edit_contact_gui(find(book, name), f[1], f[2], f[3], f[4], today)
      IN  /\ find(book, name) # None
          /\ book' = DictSet(book, AddressBook_key(name), r.val)
          /\ last' = Call("edit_contact_gui", <<name>> \o f, r.err, <<>>)
          /\ UNCHANGED <<notes, today, pc, saved>>

\* the forms edit_contact_gui is called with: phones "", "7778889999",
\* "7778889999,123" and "1112223333, 7778889999"; e-mail "", "a@B.io" and
\* "bad"; address "" and "1 Main"; birthday "", "01.03.2000" and "99.99.2023"
EditForms ==
    { <<p, e, a, b>> :
        p \in {<<>>, Phone2, Phone2 \o <<",">> \o <<"1", "2", "3">>, PhonesStr1},
        e \in {<<>>, Email1, <<"b", "a", "d">>},
        a \in {<<>>, Address1},
        b \in {<<>>, Birthday1, <<"9", "9", ".", "9", "9", ".", "2", "0", "2", "3">>} }

NextEdit ==
    \/ AddRecord({<<" ", "A", "n", "n", " ">>}, {<<Phone1>>})
    \/ EditContactGui(LookupNames, EditForms)

SpecEdit == Init /\ [][NextEdit]_vars

\* --- the CLI session: main() reads commands until it is told to stop ------

\* no record of the mapping has more than MaxPhones phones
PhonesWithinBound(data) ==
    \A e \in 1..Len(data) : Len(data[e].val.phones) <= MaxPhones

\* the command `add <args>` read at the prompt and handled
CmdAdd(argsSet) ==
    \E args \in argsSet :
      LET r == cli_add_contact(book, args)
      IN  /\ pc = "prompt"
          /\ PhonesWithinBound(r.val)
          /\ book' = r.val
          /\ last' = Call("add", args, r.err, <<r.ret>>)
          /\ pc' = main_after("command")
          /\ UNCHANGED <<notes, today, saved>>

\* the command `change <args>`
CmdChange(argsSet) ==
    \E args \in argsSet :
      LET r == cli_change_contact(book, args)
      IN  /\ pc = "prompt"
          /\ book' = r.val
          /\ last' = Call("change", args, r.err, <<r.ret>>)
          /\ pc' = main_after("command")
          /\ UNCHANGED <<notes, today, saved>>

\* the command `add-note <args>`
CmdAddNote(argsSet) ==
    \E args \in argsSet :
      LET r == cli_add_note(notes, args)
      IN  /\ pc = "prompt"
          /\ notes' = r.val
          /\ last' = Call("add-note", args, r.err, <<r.ret>>)
          /\ pc' = main_after("command")
          /\ UNCHANGED <<book, today, saved>>

\* an empty line (`continue`) or a word that is no command
NoCommand ==
    \E event \in {"blank", "invalid"} :
      /\ pc = "prompt"
      /\ last' = Call(event, <<>>, "", <<>>)
      /\ pc' = main_after(event)
      /\ UNCHANGED <<book, notes, today, saved>>

\* `close` or `exit`: break
Close ==
    /\ pc = "prompt"
    /\ last' = Call("close", <<>>, "", <<>>)
    /\ pc' = main_after("close")
    /\ UNCHANGED <<book, notes, today, saved>>

\* EOFError from input(): break
EndOfInput ==
    /\ pc = "prompt"
    /\ last' = Call("eof", <<>>, "EOFError", <<>>)
    /\ pc' = main_after("eof")
    /\ UNCHANGED <<book, notes, today, saved>>

\* KeyboardInterrupt from input()
InterruptAtPrompt ==
    /\ pc = "prompt"
    /\ last' = Call("interrupt", <<>>, "KeyboardInterrupt", <<>>)
    /\ pc' = main_after("interrupt")
    /\ UNCHANGED <<book, notes, today, saved>>

\* KeyboardInterrupt while an add command runs: @input_error does not catch
\* it, and the book is left in one of the states the handler passes through
InterruptInCommand(argsSet) ==
    \E args \in argsSet :
      \E i \in 1..Len(cli_add_contact(book, args).steps) :
        /\ pc = "prompt"
        /\ PhonesWithinBound(cli_add_contact(book, args).val)
        /\ book' = cli_add_contact(book, args).steps[i]
        /\ last' = Call("interrupt", args, "KeyboardInterrupt", <<>>)
        /\ pc' = main_after("interrupt")
        /\ UNCHANGED <<notes, today, saved>>

\* the final save_data(book, notes), after which main() returns
SaveData ==
    /\ pc = "exited"
    /\ saved' = Append(saved, <<book, notes>>)
    /\ last' = Call("save_data", <<last.op>>, "", <<>>)
    /\ pc' = "done"
    /\ UNCHANGED <<book, notes, today>>

\* "TestUser"
TestUser == <<"T", "e", "s", "t", "U", "s", "e", "r">>

\* "0987654321"
Phone3 == <<"0", "9", "8", "7", "6", "5", "4", "3", "2", "1">>

\* the arguments of the add commands: no phone; the phone "123"; a phone and
\* the e-mail "bad-email"; a phone, an e-mail and the address "1 Main"; the
\* name "Al"
AddArgs ==
    { <<TestUser>>, <<TestUser, <<"1", "2", "3">>>>,
      <<TestUser, Phone1, <<"b", "a", "d", "-", "e", "m", "a", "i", "l">>>>,
      <<TestUser, Phone1, Email1, <<"1">>, <<"M", "a", "i", "n">>>>,
      << <<"A", "l">>, Phone1>> }

\* the arguments of the change commands
ChangeArgs == { <<TestUser, Phone1, Phone3>>, <<TestUser, Phone1>> }

\* the arguments of the add-note commands: "Todo buy #work", "Todo",
\* "Todo buy #"
NoteArgs ==
    { <<<<"T", "o", "d", "o">>, Content1, <<"#", "w", "o", "r", "k">>>>, <<<<"T", "o", "d", "o">>>>, <<<<"T", "o", "d", "o">>, Content1, <<"#">> >> }

NextCli ==
    \/ CmdAdd(AddArgs)
    \/ CmdChange(ChangeArgs)
    \/ CmdAddNote(NoteArgs)
    \/ NoCommand
    \/ Close
    \/ EndOfInput
    \/ InterruptAtPrompt
    \/ InterruptInCommand(AddArgs)
    \/ SaveData

\* main() runs on once it has left the loop: the save_data call is made
SpecCli == Init /\ [][NextCli]_vars /\ WF_vars(SaveData)

\* ------------------------------------------------------------------------
\* Properties
\* ------------------------------------------------------------------------

\* the trimmed, case-folded form of a name or title
NormalForm(s) == Casefold(Strip(s))

\* the stored records whose name has the normal form of the given name
RecordsNamedLike(data, name) ==
    SelectSeq(DictValues(data),
              LAMBDA r : NormalForm(r.name.value) = NormalForm(name))

\* C1: find is case- and whitespace-insensitive. Right after add_record of a
\* record, find returns that record for every name with the same trimmed,
\* case-folded form as the record's; and every find returns the stored record
\* whose name has the normal form of the argument, or None when no stored
\* record has it.
C1_FindInsensitive ==
    /\ last.op = "add_record" =>
          \A m \in QueryNames :
             NormalForm(m) = NormalForm(last.arg[1].name.value)
                => find(book, m) = last.arg[1]
    /\ last.op = "find" => last.ret = RecordsNamedLike(book, last.arg[1])

\* a record added as " Ann " is what find("ann") returns
C1_Witness ==
    /\ last.op = "find"
    /\ last.arg = << <<"a", "n", "n">> >>
    /\ last.ret # <<>>
    /\ last.ret[1].name.value = <<"A", "n", "n">>

\* C2: in both mappings every key is the trimmed, case-folded name (title) of
\* the entity stored under it, and no two entries have names (titles) with
\* the same normal form.
C2_KeysNormalized ==
    /\ \A i \in 1..Len(book) : book[i].key = NormalForm(book[i].val.name.value)
    /\ \A i \in 1..Len(notes) : notes[i].key = NormalForm(notes[i].val.title)
    /\ \A i, j \in 1..Len(book) :
          NormalForm(book[i].val.name.value) = NormalForm(book[j].val.name.value) => i = j
    /\ \A i, j \in 1..Len(notes) :
          NormalForm(notes[i].val.title) = NormalForm(notes[j].val.title) => i = j

\* both mappings hold two entries, and the note "todo" has just taken the
\* place of the note " Todo " in front of the other note
C2_Witness ==
    /\ Len(book) = 2
    /\ Len(notes) = 2
    /\ last.op = "add_note"
    /\ last.arg[1] = <<"t", "o", "d", "o">>
    /\ notes[1].val.title = <<"t", "o", "d", "o">>

\* add_record of a record whose name collides with a stored one
Collides(data, name) == RecordsNamedLike(data, name) # <<>>

\* C3: add_record of a record whose normalized name is already a key raises
\* nothing, keeps the number of entries, puts the new record in the place of
\* the old one (every other entry stays) and find on the name returns the
\* new record.
C3_AddRecordReplaces ==
    [][ (last'.op = "add_record" /\ Collides(book, last'.arg[1].name.value)) =>
          LET record == last'.arg[1]
          IN  /\ last'.err = ""
              /\ Len(book') = Len(book)
              /\ \A i \in 1..Len(book) :
                    book'[i].val =
                       IF NormalForm(book[i].val.name.value) = NormalForm(record.name.value)
                       THEN record ELSE book[i].val
              /\ \A m \in QueryNames :
                    NormalForm(m) = NormalForm(record.name.value) => find(book', m) = record
      ]_vars

\* the record just added stands first of two entries: its key was there before
C3_Witness ==
    /\ last.op = "add_record"
    /\ Len(book) = 2
    /\ book[1].val = last.arg[1]
    /\ last.arg[1].phones = <<Phone2, Phone1>>

\* C4 as stated: add_record under a colliding normalized name is an error and
\* leaves the mapping as it was.
C4_AddRecordCollisionIsError ==
    [][ (last'.op = "add_record" /\ Collides(book, last'.arg[1].name.value)) =>
          (last'.err # "" /\ book' = book)
      ]_vars

\* C4, amended: add_contact_gui under a colliding normalized name raises
\* DataValidationError and leaves the mapping as it was; add_record under a
\* colliding name raises nothing.
C4_GuiCollisionIsError ==
    [][ /\ (last'.op = "add_contact_gui" /\ Collides(book, last'.arg[1])) =>
              (last'.err = "DataValidationError" /\ book' = book)
        /\ (last'.op = "add_record" /\ Collides(book, last'.arg[1].name.value)) =>
              last'.err = ""
      ]_vars

\* add_contact_gui was refused for a name that is stored
C4_Witness ==
    /\ last.op = "add_contact_gui"
    /\ last.err = "DataValidationError"
    /\ Collides(book, last.arg[1])
    /\ last.arg[2] = PhonesStr1

\* the record the last call was made on, before and after the call
\* (the first argument of a record call is the name it was looked up by)
RecordBefore == find(book, last'.arg[1])

RecordAfter == find(book', last'.arg[1])

\* the position of the first element of a list equal to v, 0 when there is none
FirstIndex(list, v) ==
    IF \E i \in 1..Len(list) : list[i] = v
    THEN CHOOSE i \in 1..Len(list) : list[i] = v /\ \A k \in 1..(i - 1) : list[k] # v
    ELSE 0

\* C5 as stated: no record ever has two phones with the same number.
C5_NoDuplicatePhones ==
    \A e \in 1..Len(book) :
       \A i, j \in 1..Len(book[e].val.phones) :
          book[e].val.phones[i] = book[e].val.phones[j] => i = j

\* C6: add_phone of a valid number that is not in the list appends it and
\* leaves the earlier phones and the other fields alone; add_phone of a
\* number in the list changes nothing and raises nothing; and a second
\* add_phone of the same number leaves the record as the first one left it.
C6_AddPhoneIdempotent ==
    [][ last'.op = "add_phone" =>
          LET number == last'.arg[2]
          IN  /\ FirstIndex(RecordBefore.phones, number) # 0 =>
                    (last'.err = "" /\ book' = book)
              /\ (FirstIndex(RecordBefore.phones, number) = 0
                    /\ Phone_validate(number).err = "") =>
                    /\ last'.err = ""
                    /\ RecordAfter = [RecordBefore EXCEPT !.phones = Append(@, number)]
              /\ (last.op = "add_phone" /\ last.arg = last'.arg /\ last.err = "") =>
                    (last'.err = "" /\ book' = book)
      ]_vars

\* add_phone of Phone1 on a record that has Phone1 in front of Phone2: a
\* no-op, as an append would have put Phone1 last
C6_Witness ==
    /\ last.op = "add_phone"
    /\ last.err = ""
    /\ last.arg[2] = Phone1
    /\ find(book, last.arg[1]).phones = <<Phone1, Phone2>>

\* C7: edit_phone(old, new) raises PhoneNotFoundError and changes nothing when
\* no phone equals old, whatever new is; otherwise, for a valid new, the first
\* phone equal to old becomes new and nothing else changes.
C7_EditPhone ==
    [][ last'.op = "edit_phone" =>
          LET old == last'.arg[2]
              new == last'.arg[3]
              i == FirstIndex(RecordBefore.phones, old)
          IN  /\ i = 0 => (last'.err = "PhoneNotFoundError" /\ book' = book)
              /\ (i # 0 /\ Phone_validate(new).err = "") =>
                    /\ last'.err = ""
                    /\ RecordAfter = [RecordBefore EXCEPT !.phones[i] = new]
                    /\ Len(RecordAfter.phones) = Len(RecordBefore.phones)
      ]_vars

\* edit_phone(Phone1, Phone2) has changed the first of two Phone1 only
C7_Witness ==
    /\ last.op = "edit_phone"
    /\ last.err = ""
    /\ last.arg[2] = Phone1
    /\ last.arg[3] = Phone2
    /\ find(book, last.arg[1]).phones = <<Phone2, Phone1>>

\* the DataValidationError subtypes the Record operations raise
ValidationErrors ==
    {"InvalidPhoneFormatError", "InvalidEmailFormatError", "InvalidBirthdayFormatError"}

\* C8: when add_phone, edit_phone, add_email or add_birthday raises a
\* validation error, the record (phones, email, address, birthday) and the
\* whole mapping are as before the call.
C8_ValidationFailureKeepsRecord ==
    [][ (last'.op \in {"add_phone", "edit_phone", "add_email", "add_birthday"}
            /\ last'.err \in ValidationErrors) =>
          (RecordAfter = RecordBefore /\ book' = book)
      ]_vars

\* add_email was refused on a record that has phones, an e-mail, an address
\* and a birthday
C8_Witness ==
    /\ last.op = "add_email"
    /\ last.err = "InvalidEmailFormatError"
    /\ find(book, last.arg[1]).phones = <<Phone1, Phone2>>
    /\ find(book, last.arg[1]).email = Field(Email1)
    /\ find(book, last.arg[1]).address = Field(Address1)
    /\ find(book, last.arg[1]).birthday = Field(Date(2000, 3, 1))

\* the notes whose title has the normal form of the given title
NotesTitledLike(data, title) ==
    SelectSeq(DictValues(data), LAMBDA n : NormalForm(n.title) = NormalForm(title))

\* C9: delete of an absent name raises ContactNotFoundError, delete_phone of
\* an absent number raises PhoneNotFoundError, delete_note and edit_note_text
\* of an absent title raise NoteNotFoundError, and each leaves both mappings
\* as they were; delete of a present name removes that entry only, and find
\* then returns None for every name with the same normal form.
C9_MissingKey ==
    [][ /\ (last'.op = "delete" /\ ~Collides(book, last'.arg[1])) =>
              (last'.err = "ContactNotFoundError" /\ book' = book /\ notes' = notes)
        /\ (last'.op = "delete" /\ Collides(book, last'.arg[1])) =>
              /\ last'.err = ""
              /\ book' = SelectSeq(book, LAMBDA e :
                            NormalForm(e.val.name.value) # NormalForm(last'.arg[1]))
              /\ Len(book') = Len(book) - 1
              /\ \A m \in QueryNames :
                    NormalForm(m) = NormalForm(last'.arg[1]) => find(book', m) = None
        /\ (last'.op = "delete_phone"
              /\ FirstIndex(RecordBefore.phones, last'.arg[2]) = 0) =>
              (last'.err = "PhoneNotFoundError" /\ book' = book /\ notes' = notes)
        /\ (last'.op \in {"delete_note", "edit_note_text"}
              /\ NotesTitledLike(notes, last'.arg[1]) = <<>>) =>
              (last'.err = "NoteNotFoundError" /\ notes' = notes /\ book' = book)
      ]_vars

\* delete was refused for a name that is not stored, with entries in both
\* mappings
C9_Witness ==
    /\ last.op = "delete"
    /\ last.err = "ContactNotFoundError"
    /\ Len(book) = 2
    /\ notes # <<>>

\* the query, lower-cased, is a substring of the lower-cased name, of one
\* phone, of the e-mail or of the address
Matches(record, query) ==
    \/ Contains(Lower(query), Lower(record.name.value))
    \/ \E i \in 1..Len(record.phones) : Contains(Lower(query), Lower(record.phones[i]))
    \/ record.email # None /\ Contains(Lower(query), Lower(record.email.value))
    \/ record.address # None /\ Contains(Lower(query), Lower(record.address.value))

\* C10: search_contacts returns exactly the matching records, each once, in
\* the insertion order of the mapping, and leaves the mapping as it was.
C10_SearchContacts ==
    [][ last'.op = "search_contacts" =>
          /\ last'.ret = SelectSeq(DictValues(book), LAMBDA r : Matches(r, last'.arg[1]))
          /\ last'.err = ""
          /\ book' = book
      ]_vars

\* search for "888" among two records returned the one that has Phone2, a
\* record with an e-mail, an address and a birthday
C10_Witness ==
    /\ last.op = "search_contacts"
    /\ last.arg = << <<"8", "8", "8">> >>
    /\ Len(book) = 2
    /\ Len(last.ret) = 1
    /\ last.ret[1].phones = <<Phone1, Phone2>>
    /\ last.ret[1].birthday # None

\* the elements of a sequence
Range(f) == { f[i] : i \in DOMAIN f }

\* the stored records that have a birthday date
WithBirthday(data) ==
    SelectSeq(DictValues(data),
              LAMBDA r : r.birthday # None /\ r.birthday.value # None)

\* a birthday's month and day exist in year y
ExistsIn(bd, y) == bd.d <= DaysInMonth(y, bd.m)

\* the year a birthday is projected onto: the current one unless that
\* projection is strictly before today
ProjectionYear(bd, now) ==
    IF ExistsIn(bd, now.y) /\ DateLess(Date(now.y, bd.m, bd.d), now)
    THEN now.y + 1 ELSE now.y

\* the projected birthday
Projected(bd, now) == Date(ProjectionYear(bd, now), bd.m, bd.d)

\* the day difference between today and the projected birthday
Delta(bd, now) == ToOrdinal(Projected(bd, now)) - ToOrdinal(now)

\* the names of the records a listing for `days` is to include
DueNames(data, days, now) ==
    { r.name.value : r \in
        { q \in Range(WithBirthday(data)) :
            /\ ExistsIn(q.birthday.value, ProjectionYear(q.birthday.value, now))
            /\ 0 <= Delta(q.birthday.value, now)
            /\ Delta(q.birthday.value, now) <= days } }

\* the names on the lines of a listing
ListedNames(lines) == { lines[i][1] : i \in 1..Len(lines) }

\* C11: a listing includes a record if and only if its birthday is set and
\* 0 <= delta <= days, delta taken from the projected date before any
\* weekend rollover
C11_IncludedIffDue ==
    last.op = "get_upcoming_birthdays" =>
        ListedNames(last.ret) = DueNames(book, last.arg[1], today)

\* the stored record with the given name
RecordNamed(data, name) ==
    CHOOSE r \in Range(DictValues(data)) : r.name.value = name

\* the date shown for a projected birthday
Displayed(p) ==
    IF Weekday(p) = 5 THEN AddDays(p, 2)
    ELSE IF Weekday(p) = 6 THEN AddDays(p, 1)
    ELSE p

\* C12: every listed record is shown with its projected birthday plus 2 days
\* when that is a Saturday, plus 1 day when it is a Sunday, and with the
\* projected birthday itself otherwise
C12_WeekendRollover ==
    (last.op = "get_upcoming_birthdays" /\ last.err = "") =>
        \A i \in 1..Len(last.ret) :
            last.ret[i][2] =
                Strftime(Displayed(Projected(
                    RecordNamed(book, last.ret[i][1]).birthday.value, today)))

\* a Saturday birthday exactly `days` days ahead is listed with the Monday
C12_Witness ==
    /\ last.op = "get_upcoming_birthdays"
    /\ last.err = ""
    /\ last.arg[1] = 3
    /\ \E i \in 1..Len(last.ret) :
          /\ RecordNamed(book, last.ret[i][1]).birthday.value = Date(2000, 6, 15)
          /\ Weekday(Date(2024, 6, 15)) = 5
          /\ today = Date(2024, 6, 12)
          /\ last.ret[i][2] = <<"1", "7", ".", "0", "6", ".", "2", "0", "2", "4">>

\* a Sunday birthday is listed with the Monday
C12_WitnessSunday ==
    /\ last.op = "get_upcoming_birthdays"
    /\ last.err = ""
    /\ today = Date(2024, 6, 12)
    /\ \E i \in 1..Len(last.ret) :
          /\ RecordNamed(book, last.ret[i][1]).birthday.value = Date(2001, 6, 16)
          /\ last.ret[i][2] = <<"1", "7", ".", "0", "6", ".", "2", "0", "2", "4">>

\* the date a line shows, as year, month, day
ShownDate(line) ==
    LET t == line[2]
    IN  << IntOf(SubSeq(t, 7, 10)), IntOf(SubSeq(t, 4, 5)), IntOf(SubSeq(t, 1, 2)) >>

\* a date triple is before another one
TripleLess(a, b) ==
    \/ a[1] < b[1]
    \/ a[1] = b[1] /\ a[2] < b[2]
    \/ a[1] = b[1] /\ a[2] = b[2] /\ a[3] < b[3]

\* the position of the record with the given name in the mapping
InsertionIndex(data, name) ==
    CHOOSE e \in 1..Len(data) : data[e].val.name.value = name

\* C13: the lines of a listing are in ascending order of the displayed date,
\* and lines with the same displayed date are in the mapping's insertion order
C13_SortedByDisplayedDate ==
    (last.op = "get_upcoming_birthdays" /\ last.err = "") =>
        \A i, j \in 1..Len(last.ret) :
            i < j =>
                /\ ~TripleLess(ShownDate(last.ret[j]), ShownDate(last.ret[i]))
                /\ ShownDate(last.ret[i]) = ShownDate(last.ret[j]) =>
                      InsertionIndex(book, last.ret[i][1])
                          < InsertionIndex(book, last.ret[j][1])

\* the record added first has the later date and is listed second
C13_Witness ==
    /\ last.op = "get_upcoming_birthdays"
    /\ last.err = ""
    /\ Len(last.ret) = 2
    /\ InsertionIndex(book, last.ret[1][1]) = 2
    /\ TripleLess(ShownDate(last.ret[1]), ShownDate(last.ret[2]))

\* a Saturday birthday added after a Monday one shares its displayed date
C13_WitnessTie ==
    /\ last.op = "get_upcoming_birthdays"
    /\ last.err = ""
    /\ Len(last.ret) = 2
    /\ ShownDate(last.ret[1]) = ShownDate(last.ret[2])
    /\ RecordNamed(book, last.ret[1][1]).birthday.value = Date(1999, 6, 17)
    /\ RecordNamed(book, last.ret[2][1]).birthday.value = Date(2000, 6, 15)

\* C14: get_upcoming_birthdays raises nothing, whatever validated birthdays
\* the records hold, whatever today is and whatever days is asked for
C14_NeverRaises ==
    last.op = "get_upcoming_birthdays" => last.err = ""

\* a text of the form DD.MM.YYYY in the digits 0-9
IsPadded(text) ==
    /\ Len(text) = 10
    /\ text[3] = "." /\ text[6] = "."
    /\ \A i \in {1, 2, 4, 5, 7, 8, 9, 10} : text[i] \in AsciiDigits

\* year, month and day name a day of the calendar
RealDate(y, m, d) == y >= 1 /\ m \in 1..12 /\ d \in 1..DaysInMonth(y, m)

\* the date a DD.MM.YYYY text names
PaddedDate(text) ==
    Date(IntOf(SubSeq(text, 7, 10)), IntOf(SubSeq(text, 4, 5)), IntOf(SubSeq(text, 1, 2)))

\* a DD.MM.YYYY text of a day of the calendar
IsDateText(text) ==
    /\ IsPadded(text)
    /\ RealDate(PaddedDate(text).y, PaddedDate(text).m, PaddedDate(text).d)

\* a text that reads, surrounding whitespace aside, as day.month.year of a
\* day of the calendar, in one or two, one or two and four digits
ReadsAsDate(text) ==
    LET parts == Split(Strip(text), ".")
    IN  /\ Len(parts) = 3
        /\ \A i \in 1..3 : parts[i] # <<>> /\ IsDigit(parts[i])
        /\ Len(parts[1]) <= 2 /\ Len(parts[2]) <= 2 /\ Len(parts[3]) = 4
        /\ RealDate(IntOf(parts[3]), IntOf(parts[2]), IntOf(parts[1]))

\* the outcome of Birthday(text) for a DD.MM.YYYY text of a date: an error
\* when the date is after today, else a birthday rendered as the text
DateTextOutcome ==
    (last.op = "Birthday" /\ IsDateText(last.arg[1])) =>
        IF DateLess(today, PaddedDate(last.arg[1]))
        THEN last.err = "InvalidBirthdayFormatError"
        ELSE last.err = "" /\ last.ret = last.arg[1]

C15_WitnessFuture ==
    /\ last.op = "Birthday"
    /\ IsDateText(last.arg[1])
    /\ DateLess(today, PaddedDate(last.arg[1]))
    /\ last.err = "InvalidBirthdayFormatError"

\* C16: an empty or whitespace-only birthday text raises nothing, in Birthday
\* construction and in add_birthday, and gives the state "not set"
C16_BlankBirthdayAccepted ==
    (last.op \in {"Birthday", "add_birthday"} /\ Strip(last.arg[Len(last.arg)]) = <<>>) =>
        last.err = ""


\* C17: after add_birthday("") the record is like one whose birthday was
\* never set: its rendering has no birthday clause, show_birthday reports
\* that no birthday is set, and no listing of upcoming birthdays has it
C17_EmptyTextClearsBirthday ==
    (last.op = "add_birthday" /\ last.arg[2] = <<>> /\ last.err = "") =>
        LET rec == find(book, last.arg[1])
            never == [rec EXCEPT !.birthday = None]
        IN  /\ ~Contains(<<",", " ", "b", "i", "r", "t", "h", "d", "a", "y", ":">>, Record_str(rec))
            /\ Record_str(rec) = Record_str(never)
            /\ show_birthday(rec) = show_birthday(never)
            /\ \A days \in DaysAhead :
                  rec.name.value \notin
                      ListedNames(get_upcoming_birthdays(book, days, today).val)

\* C18: Phone construction succeeds exactly for the strings of 10 of the
\* digits 0-9, which it stores and renders unchanged; every other string
\* fails with InvalidPhoneFormatError
C18_PhoneTenAsciiDigits ==
    last.op = "Phone" =>
        IF Len(last.arg[1]) = 10 /\ \A i \in 1..10 : last.arg[1][i] \in AsciiDigits
        THEN last.err = "" /\ last.ret = last.arg[1]
        ELSE last.err = "InvalidPhoneFormatError"


\* the tag set of the note stored under a title's key
TagsOf(data, title) == find_note_by_id(data, title).tags

\* C19: every tag stored in a note is non-empty, lower-cased, without a
\* leading '#' and without any whitespace character (space, tab, newline)
C19_TagsNormalized ==
    \A e \in 1..Len(notes) :
       \A t \in notes[e].val.tags :
          /\ t # <<>>
          /\ Lower(t) = t
          /\ t[1] # "#"
          /\ \A i \in 1..Len(t) : t[i] \notin Whitespace

\* what is left of a tag without letter case, surrounding whitespace and
\* leading '#' characters
TagCore(tag) == LStrip(Strip(Lower(tag)), {"#"})

\* C20: add_tag is idempotent up to normalization: the tags a successful call
\* adds are the cores of its inputs, so inputs that differ only in letter
\* case, surrounding whitespace or leading '#' add one and the same element,
\* and adding them to a note that holds nothing else leaves a set of size 1
C20_AddTagIdempotent ==
    [][ (last'.op = "add_tag_to_note" /\ last'.err = "") =>
          LET before == TagsOf(notes, last'.arg[1])
              after == TagsOf(notes', last'.arg[1])
              given == Range(last'.arg[2])
          IN  /\ after = before \cup { TagCore(t) : t \in given }
              /\ \A a \in given :
                    ((\A b \in given : TagCore(b) = TagCore(a))
                        /\ before \subseteq {TagCore(a)})
                    => Cardinality(after) = 1
      ]_vars

\* "#Work" and "work" were added to one note, which holds the one tag "work"
C20_Witness ==
    /\ last.op = "add_tag_to_note"
    /\ last.err = ""
    /\ last.arg[2] = <<TagWork, TagPlain>>
    /\ TagsOf(notes, last.arg[1]) = {TagPlain}
    /\ Cardinality(TagsOf(notes, last.arg[1])) = 1


\* C21: add_note of a note whose normalized title is that of a stored note
\* replaces that note's content and tags by the new note's and the number of
\* entries stays; under a new normalized title the number grows by one
C21_AddNoteUpserts ==
    [][ (last'.op = "add_note" /\ last'.err = "") =>
          LET title == last'.arg[1]
              new == [title |-> title, content |-> last'.arg[2],
                      tags |-> { TagCore(t) : t \in Range(last'.arg[3]) }]
          IN  /\ NotesTitledLike(notes', title) = <<new>>
              /\ IF NotesTitledLike(notes, title) # <<>>
                 THEN Len(notes') = Len(notes)
                 ELSE Len(notes') = Len(notes) + 1
              /\ \A e \in 1..Len(notes) :
                    NormalForm(notes[e].val.title) # NormalForm(title) =>
                        notes'[e] = notes[e]
      ]_vars

\* "apple " without tags has taken the place of a note stored before "Zebra"
C21_Witness ==
    /\ last.op = "add_note"
    /\ last.err = ""
    /\ last.arg[1] = <<"a", "p", "p", "l", "e", " ">>
    /\ Len(notes) = 2
    /\ notes[1].val.title = last.arg[1]
    /\ notes[1].val.tags = {}
    /\ notes[2].val.title = <<"Z", "e", "b", "r", "a">>

\* a tag that is empty or holds a whitespace character once it is cleaned
InvalidTag(tag) ==
    TagCore(tag) = <<>> \/ \E i \in 1..Len(TagCore(tag)) : TagCore(tag)[i] \in Whitespace

\* the position of the first invalid tag of a list, 0 when all are valid
FirstInvalid(tags) ==
    IF \E k \in 1..Len(tags) : InvalidTag(tags[k])
    THEN CHOOSE k \in 1..Len(tags) :
            InvalidTag(tags[k]) /\ \A i \in 1..(k - 1) : ~InvalidTag(tags[i])
    ELSE 0

\* C22: add_tag_to_note on an absent title fails with NoteNotFoundError and
\* changes nothing; on a present title with a list whose k-th tag is the first
\* invalid one it fails with InvalidTagFormatError, the tags before position
\* k added and no tag after position k
C22_AddTagsNotAtomic ==
    [][ last'.op = "add_tag_to_note" =>
          LET title == last'.arg[1]
              given == last'.arg[2]
              k == FirstInvalid(given)
          IN  IF NotesTitledLike(notes, title) = <<>>
              THEN last'.err = "NoteNotFoundError" /\ notes' = notes
              ELSE k # 0 =>
                      /\ last'.err = "InvalidTagFormatError"
                      /\ TagsOf(notes', title) =
                            TagsOf(notes, title) \cup { TagCore(given[i]) : i \in 1..(k - 1) }
      ]_vars


\* the stored notes that have the tag as a whole tag, in insertion order
NotesTagged(data, tag) == SelectSeq(DictValues(data), LAMBDA n : tag \in n.tags)

\* C23: find_notes_by_tag cleans the query like add_tag and fails with
\* InvalidTagFormatError when the cleaned query is empty or contains
\* whitespace; otherwise it returns exactly the notes that have the cleaned
\* query as a whole tag; the collection stays as it is
C23_FindNotesByTag ==
    [][ last'.op = "find_notes_by_tag" =>
          /\ notes' = notes
          /\ IF InvalidTag(last'.arg[1])
             THEN last'.err = "InvalidTagFormatError"
             ELSE /\ last'.err = ""
                  /\ last'.ret = NotesTagged(notes, TagCore(last'.arg[1]))
      ]_vars

\* C24: remove_tag_from_note on a present note takes the normalized tag out
\* of that note only, after which find_notes_by_tag of the tag does not
\* return the note; a tag the note does not have changes nothing and raises
\* nothing; an absent title fails with NoteNotFoundError
C24_RemoveTag ==
    [][ last'.op = "remove_tag_from_note" =>
          LET title == last'.arg[1]
              tag == last'.arg[2]
          IN  IF NotesTitledLike(notes, title) = <<>>
              THEN last'.err = "NoteNotFoundError" /\ notes' = notes
              ELSE LET old == NotesTitledLike(notes, title)[1]
                       new == [old EXCEPT !.tags = @ \ {TagCore(tag)}]
                   IN  /\ last'.err = ""
                       /\ NotesTitledLike(notes', title) = <<new>>
                       /\ Len(notes') = Len(notes)
                       /\ \A e \in 1..Len(notes) :
                             notes[e].val # old => notes'[e] = notes[e]
                       /\ TagCore(tag) \notin old.tags => notes' = notes
                       /\ new \notin Range(find_notes_by_tag(notes', tag).val)
      ]_vars

\* "#Work" was removed from a note that keeps its tag "urgent"
C24_Witness ==
    /\ last.op = "remove_tag_from_note"
    /\ last.err = ""
    /\ last.arg[2] = TagWork
    /\ TagsOf(notes, last.arg[1]) = {TagUrgent}
    /\ Len(notes) = 2
    /\ \E e \in 1..2 : TagPlain \in notes[e].val.tags

\* the query terms of a prefix search: the comma-separated pieces that are
\* not blank, each trimmed, lower-cased and without leading '#'
QueryTerms(query) ==
    { TagCore(piece) : piece \in { q \in Range(Split(query, ",")) : Strip(q) # <<>> } }

\* a note has, for every term, a tag that starts with the term
MatchesAllTerms(note, terms) ==
    \A term \in terms : \E tag \in note.tags : StartsWith(tag, term)

\* C25: the prefix search returns exactly the notes that have for every query
\* term a tag starting with the term; without a non-blank term it returns no
\* note; a note without tags is never returned; and a note that
\* find_notes_by_tag returns for t is returned by the prefix search for the
\* single term t
C25_PrefixSearch ==
    /\ last.op = "search_notes_by_multiple_tags_gui" =>
          /\ last.ret =
                (IF QueryTerms(last.arg[1]) = {} THEN <<>>
                 ELSE SelectSeq(DictValues(notes),
                        LAMBDA n : MatchesAllTerms(n, QueryTerms(last.arg[1]))))
          /\ \A n \in Range(last.ret) : n.tags # {}
    /\ \A t \in ShelfTagQueries :
          ~Contains(<<",">>, t) =>
              Range(find_notes_by_tag(notes, t).val)
                  \subseteq Range(search_notes_by_multiple_tags_gui(t, notes))

\* "work, ur" finds the note tagged "urgent" and "work" and leaves out a note
\* tagged "work" only
C25_Witness ==
    /\ last.op = "search_notes_by_multiple_tags_gui"
    /\ last.arg[1] = <<"w", "o", "r", "k", ",", " ", "u", "r">>
    /\ Len(last.ret) = 1
    /\ last.ret[1].tags = {TagUrgent, TagPlain}
    /\ \E e \in 1..Len(notes) : notes[e].val.tags = {TagPlain}
    /\ Range(find_notes_by_tag(notes, TagWork).val) # {}

\* C26: sort_notes_by_tag_count returns every stored note once, by descending
\* number of tags and, among notes with the same number, by ascending
\* lower-cased title; the collection and its order stay as they are
C26_SortByTagCount ==
    [][ last'.op = "sort_notes_by_tag_count" =>
          /\ notes' = notes
          /\ Len(last'.ret) = Len(notes)
          /\ Range(last'.ret) = Range(DictValues(notes))
          /\ \A i, j \in 1..Len(last'.ret) :
                i < j =>
                    \/ Cardinality(last'.ret[i].tags) > Cardinality(last'.ret[j].tags)
                    \/ /\ Cardinality(last'.ret[i].tags) = Cardinality(last'.ret[j].tags)
                       /\ StrLess(Lower(last'.ret[i].title), Lower(last'.ret[j].title))
      ]_vars

\* Zebra (1 tag), Apple (1 tag) and Ideas (2 tags), stored in this order, are
\* listed as Ideas, Apple, Zebra
C26_Witness ==
    /\ last.op = "sort_notes_by_tag_count"
    /\ [e \in 1..Len(notes) |-> notes[e].val.title] = <<<<"Z", "e", "b", "r", "a">>, <<"A", "p", "p", "l", "e">>, <<"I", "d", "e", "a", "s">>>>
    /\ [e \in 1..Len(notes) |-> Cardinality(notes[e].val.tags)] = <<1, 1, 2>>
    /\ [i \in 1..Len(last.ret) |-> last.ret[i].title] = <<<<"I", "d", "e", "a", "s">>, <<"A", "p", "p", "l", "e">>, <<"Z", "e", "b", "r", "a">>>>


\* DataValidationError and its subclasses that edit_contact_gui can raise
DataValidationErrors ==
    { "DataValidationError", "InvalidPhoneFormatError", "InvalidEmailFormatError",
      "InvalidAddressFormatError", "InvalidBirthdayFormatError" }

\* C27: whenever edit_contact_gui raises a DataValidationError, the record's
\* phones, e-mail, address and birthday are the same as before the call
C27_EditContactKeepsRecordOnError ==
    [][ (last'.op = "edit_contact_gui" /\ last'.err \in DataValidationErrors) =>
          LET before == find(book, last'.arg[1])
              after == find(book', last'.arg[1])
          IN  /\ after.phones = before.phones
              /\ after.email = before.email
              /\ after.address = before.address
              /\ after.birthday = before.birthday
      ]_vars


\* C28: an add command for a new name that is rejected because of its data
\* (an invalid phone, or a valid phone with an invalid e-mail) leaves the
\* address book as it was, and a following change command for that name
\* reports that the contact is not found
C28_RejectedAddCreatesNothing ==
    [][ (/\ last'.op = "add"
         /\ Len(last'.arg) >= 2
         /\ RecordsNamedLike(book, last'.arg[1]) = <<>>
         /\ \/ last'.ret = <<"not_created">>
            \/ last'.err \in {"InvalidPhoneFormatError", "InvalidEmailFormatError"}) =>
          /\ book' = book
          /\ cli_change_contact(book', <<last'.arg[1], Phone1, Phone3>>).err
                = "ContactNotFoundError"
      ]_vars

\* the session is over: the loop was left or main() has returned
SessionEnded == pc \in {"exited", "done"}

\* C29: every way the session ends is followed by exactly one save_data call,
\* made on the book and the notes as they are then, and no save is made
\* while the loop accepts commands
C29_SaveOnceOnExit ==
    /\ [](pc = "prompt" => saved = <<>>)
    /\ [](Len(saved) <= 1)
    /\ [](pc = "done" => saved = << <<book, notes>> >>)
    /\ (SessionEnded ~> (pc = "done" /\ Len(saved) = 1))

\* an add command was interrupted after the contact was stored, and the one
\* save has that contact
C29_Witness ==
    /\ pc = "done"
    /\ last.op = "save_data"
    /\ last.arg = <<"interrupt">>
    /\ Len(saved) = 1
    /\ saved[1] = <<book, notes>>
    /\ RecordsNamedLike(book, TestUser) # <<>>
    /\ notes # <<>>


\* the date a line shows falls on a Saturday or a Sunday, counted from
\* Saturday 7 January 2023
ShownOnWeekend(line) ==
    LET t == ShownDate(line)
    IN  (ToOrdinal(Date(t[1], t[2], t[3])) - ToOrdinal(Date(2023, 1, 7))) % 7 \in {0, 1}

\* a date as year, month, day
TripleOf(date) == <<date.y, date.m, date.d>>

\* C30: every date a listing shows is a weekday between today and
\* today + days + 2, no record is listed twice, and a record without a set
\* birthday is never listed
C30_ListingWellFormed ==
    (last.op = "get_upcoming_birthdays" /\ last.err = "") =>
        /\ \A i \in 1..Len(last.ret) :
              /\ ~ShownOnWeekend(last.ret[i])
              /\ ~TripleLess(ShownDate(last.ret[i]), TripleOf(today))
              /\ ~TripleLess(TripleOf(AddDays(today, last.arg[1] + 2)),
                             ShownDate(last.ret[i]))
              /\ last.ret[i][1] \in
                    { r.name.value : r \in Range(WithBirthday(book)) }
        /\ \A i, j \in 1..Len(last.ret) :
              i # j => last.ret[i][1] # last.ret[j][1]

\* a Saturday birthday on the last day of the window is shown on the Monday,
\* today + days + 2, while a stored record without a birthday is left out
C30_Witness ==
    /\ last.op = "get_upcoming_birthdays"
    /\ last.err = ""
    /\ Len(last.ret) = 1
    /\ Len(book) = 2
    /\ Len(WithBirthday(book)) = 1
    /\ ShownDate(last.ret[1]) = TripleOf(AddDays(today, last.arg[1] + 2))
    /\ RecordNamed(book, last.ret[1][1]).birthday.value = Date(2000, 6, 15)


====
